---- MODULE Spec2Model ----
(***************************************************************************)
(* Token-aware prompt assembly (PromptManager.ts) and story analysis       *)
(* (storyAnalysis.ts).                                                     *)
(*                                                                         *)
(* A prompt text is a sequence of one-character strings.  The tokenizer is *)
(* the tiktoken encoder the manager is constructed with; it is modelled by *)
(* the cl100k_base pre-tokenizer pattern restricted to the model's         *)
(* alphabet (letters, space, newline, punctuation), every piece the        *)
(* pattern yields being one token.  decode is the concatenation of the     *)
(* tokens.  A story text is a string.                                      *)
(*                                                                         *)
(* Specifications:                                                         *)
(*   Spec           the manager under small budgets: add, remove, set a    *)
(*                  variable, buildPrompt, createChatCompletionMessages    *)
(*   SpecTokenizer  countTokens and truncateToTokenLimit on short texts    *)
(*   SpecScenario   the 50/80-token scenario under {total: 100}            *)
(*   SpecOrder      three components, all priority patterns                *)
(*   SpecTemplate   placeholders and the template-variable setters         *)
(*   SpecIds        additions of ids already present, and removals         *)
(*   SpecFrame      repeated builds of a list out of priority order        *)
(*   SpecTypes      a small budget for every component type                *)
(*   SpecBatch      addComponents on lists that repeat ids                 *)
(*   SpecStory      analyzeStoryContent on stories of a few sentences      *)
(*   SpecBeats      analyzeStoryContent on longer, mostly plain stories    *)
(*   SpecPrompts    createContextAwareImagePrompt on analysed stories      *)
(*   SpecImages     generateStoryImages, its requests answered in any way  *)
(*   SpecRetry      the generateImage calls of one batch, with fairness    *)
(*   SpecSpeech     SpeechService and the speech synthesizer               *)
(***************************************************************************)
EXTENDS Integers, Sequences, FiniteSets, TLC

\* ------------------------------------------------------------------------
\* Characters and texts
\* ------------------------------------------------------------------------
Letters == {"a", "b", "c", "d", "e", "k", "n", "r", "t", "u"}

Newlines == {"\n"}

Whitespace == {" "} \cup Newlines

\* \w of the placeholder pattern: letters and the underscore
WordChars == Letters \cup {"_"}

IsPunct(c) == c \notin Letters /\ c \notin Whitespace

RECURSIVE RunEnd(_, _, _)
\* first index >= i of text whose character is not in class (Len+1 if none)
RunEnd(text, i, class) ==
  IF i <= Len(text) /\ text[i] \in class THEN RunEnd(text, i + 1, class) ELSE i

RECURSIVE PunctEnd(_, _)
PunctEnd(text, i) ==
  IF i <= Len(text) /\ IsPunct(text[i]) THEN PunctEnd(text, i + 1) ELSE i

RECURSIVE LastNewline(_, _, _)
\* index of the last newline of text[i..j-1], 0 if there is none
LastNewline(text, i, j) ==
  IF j <= i THEN 0
  ELSE IF text[j - 1] \in Newlines THEN j - 1 ELSE LastNewline(text, i, j - 1)

RECURSIVE Flatten(_)
\* the concatenation of a sequence of texts (by halves)
Flatten(seqs) ==
  IF Len(seqs) = 0 THEN <<>>
  ELSE IF Len(seqs) = 1 THEN seqs[1]
  ELSE LET mid == Len(seqs) \div 2
       IN  Flatten(SubSeq(seqs, 1, mid)) \o Flatten(SubSeq(seqs, mid + 1, Len(seqs)))

Max(a, b) == IF a >= b THEN a ELSE b

\* ------------------------------------------------------------------------
\* Tokenizer (tiktoken encode / decode as used by the manager)
\* ------------------------------------------------------------------------
\* One past the end of the token that starts at index i of text:
\*   [^\r\n\p{L}\p{N}]?\p{L}+ | ?[^\s\p{L}\p{N}]+[\r\n]* | \s*[\r\n] |
\*   \s+(?!\S) | \s+
TokenEnd(text, i) ==
  LET c == text[i]
      n == Len(text)
      hasNext == i < n
  IN  IF c \in Letters THEN RunEnd(text, i, Letters)
      ELSE IF c \notin Newlines /\ hasNext /\ text[i + 1] \in Letters
        THEN RunEnd(text, i + 1, Letters)
      ELSE IF IsPunct(c) THEN RunEnd(text, PunctEnd(text, i), Newlines)
      ELSE IF c = " " /\ hasNext /\ IsPunct(text[i + 1])
        THEN RunEnd(text, PunctEnd(text, i + 1), Newlines)
      ELSE LET w == RunEnd(text, i, Whitespace)
               nl == LastNewline(text, i, w)
           IN  IF nl # 0 THEN nl + 1
               ELSE IF w > n THEN w
               ELSE IF w - i >= 2 THEN w - 1
               ELSE w

RECURSIVE EncodeFrom(_, _)
EncodeFrom(text, i) ==
  IF i > Len(text) THEN <<>>
  ELSE LET e == TokenEnd(text, i)
       IN  <<SubSeq(text, i, e - 1)>> \o EncodeFrom(text, e)

encode(text) == EncodeFrom(text, 1)

decode(tokens) == Flatten(tokens)

countTokens(text) == IF text = <<>> THEN 0 ELSE Len(encode(text))

TruncationMarker ==
  <<" ", "[", "t", "r", "u", "n", "c", "a", "t", "e", "d", "]">>

truncateToTokenLimit(text, maxTokens) ==
  IF text = <<>> THEN <<>>
  ELSE LET tokens == encode(text)
       IN  IF Len(tokens) <= maxTokens THEN text
           ELSE decode(SubSeq(tokens, 1, maxTokens)) \o TruncationMarker

\* ------------------------------------------------------------------------
\* Template variables
\* ------------------------------------------------------------------------
\* index of the last character of a {{key}} placeholder that starts at i,
\* 0 if none starts there
PlaceholderEnd(text, i) ==
  IF i + 1 <= Len(text) /\ text[i] = "{" /\ text[i + 1] = "{"
  THEN LET j == RunEnd(text, i + 2, WordChars)
       IN  IF j > i + 2 /\ j + 1 <= Len(text) /\ text[j] = "}" /\ text[j + 1] = "}"
           THEN j + 1 ELSE 0
  ELSE 0

\* this.templateVariables[key] || `{{${key}}}`
LookupVariable(vars, key, placeholder) ==
  IF key \in DOMAIN vars /\ vars[key] # <<>> THEN vars[key] ELSE placeholder

\* what the character at index i becomes: the replacement of the
\* placeholder that starts there, nothing inside a placeholder, else itself
\* (matches of \{\{(\w+)\}\} cannot overlap)
ReplacedAt(text, i, vars) ==
  LET e == PlaceholderEnd(text, i)
  IN  IF e # 0
      THEN LookupVariable(vars, SubSeq(text, i + 2, e - 2), SubSeq(text, i, e))
      ELSE IF \E s \in 1..(i - 1) : PlaceholderEnd(text, s) >= i THEN <<>>
      ELSE <<text[i]>>

applyTemplateVariables(text, vars) ==
  Flatten([i \in 1..Len(text) |-> ReplacedAt(text, i, vars)])

\* ------------------------------------------------------------------------
\* Token budgets
\* ------------------------------------------------------------------------
SupportedModel == {"gpt-4o", "gpt-4-turbo", "gpt-4", "gpt-3.5-turbo"}

PromptComponentType ==
  {"system", "instruction", "context", "example", "user_input", "formatting"}

DEFAULT_TOKEN_BUDGETS ==
  [m \in SupportedModel |->
     CASE m = "gpt-4o" ->
            [total |-> 128000, system |-> 1000, instruction |-> 2000,
             context |-> 100000, example |-> 3000, user_input |-> 10000,
             formatting |-> 500, reserved |-> 8000]
       [] m = "gpt-4-turbo" ->
            [total |-> 128000, system |-> 1000, instruction |-> 2000,
             context |-> 100000, example |-> 3000, user_input |-> 10000,
             formatting |-> 500, reserved |-> 8000]
       [] m = "gpt-4" ->
            [total |-> 8192, system |-> 800, instruction |-> 1000,
             context |-> 4000, example |-> 1000, user_input |-> 500,
             formatting |-> 300, reserved |-> 592]
       [] m = "gpt-3.5-turbo" ->
            [total |-> 16385, system |-> 500, instruction |-> 800,
             context |-> 10000, example |-> 800, user_input |-> 300,
             formatting |-> 200, reserved |-> 500]]

\* { ...a, ...b }
Spread(a, b) ==
  [k \in (DOMAIN a) \cup (DOMAIN b) |-> IF k \in DOMAIN b THEN b[k] ELSE a[k]]

\* Infinity of `this.tokenBudget[component.type] || Infinity`: larger than
\* any token count of the model
Infinity == 1000000000

\* budget[key] || otherwise  (a missing key and 0 are both falsy)
BudgetOr(budget, key, otherwise) ==
  IF key \in DOMAIN budget /\ budget[key] # 0 THEN budget[key] ELSE otherwise

\* ------------------------------------------------------------------------
\* buildPrompt
\* ------------------------------------------------------------------------
\* An optional priority is <<>> (undefined) or <<p>>.
PriorityOf(component) ==
  IF component.priority = <<>> THEN 0 ELSE component.priority[1]

\* (b.priority || 0) - (a.priority || 0)
ComparePriority(a, b) == PriorityOf(b) - PriorityOf(a)

RECURSIVE InsertSortedUnstable(_, _)
\* mutation: an unstable sort, x is put before the elements it ties with
InsertSortedUnstable(sorted, x) ==
  IF sorted = <<>> THEN <<x>>
  ELSE IF ComparePriority(Head(sorted), x) < 0
       THEN <<Head(sorted)>> \o InsertSortedUnstable(Tail(sorted), x)
       ELSE <<x>> \o sorted

RECURSIVE InsertSorted(_, _)
\* puts x after every element that does not sort strictly after it
InsertSorted(sorted, x) ==
  IF sorted = <<>> THEN <<x>>
  ELSE IF ComparePriority(Head(sorted), x) <= 0
       THEN <<Head(sorted)>> \o InsertSorted(Tail(sorted), x)
       ELSE <<x>> \o sorted

RECURSIVE SortFrom(_, _, _)
SortFrom(list, i, sorted) ==
  IF i > Len(list) THEN sorted
  ELSE SortFrom(list, i + 1, InsertSorted(sorted, list[i]))

\* [...this.components].sort(...): Array.prototype.sort is stable
SortComponents(list) == SortFrom(list, 1, <<>>)

MaxTypeTokens(budget, type) == BudgetOr(budget, type, Infinity)

Reserved(budget) == BudgetOr(budget, "reserved", 0)

CanIncludeInSystem(component, tokenCount, acc, budget) ==
  /\ component.type = "system"
  /\ acc.systemTokenCount + tokenCount <= MaxTypeTokens(budget, component.type)

CanIncludeInUser(component, tokenCount, acc, budget) ==
  /\ component.type # "system"
  /\ acc.userTokenCount + tokenCount
       <= budget.total - acc.systemTokenCount - Reserved(budget)

\* mutation: a required component that does not fit is not truncated
NeverTruncate(component, canIncludeInSystem, canIncludeInUser) == FALSE

\* mutation: the required flag is not consulted before truncating
TruncateAnyMisfit(component, canIncludeInSystem, canIncludeInUser) ==
  ~canIncludeInSystem /\ ~canIncludeInUser

MustTruncate(component, canIncludeInSystem, canIncludeInUser) ==
  component.required /\ ~canIncludeInSystem /\ ~canIncludeInUser

Fits(component, canIncludeInSystem, canIncludeInUser) ==
  \/ component.type = "system" /\ canIncludeInSystem
  \/ component.type # "system" /\ canIncludeInUser

AvailableBudget(component, acc, budget) ==
  IF component.type = "system"
  THEN Max(0, MaxTypeTokens(budget, component.type) - acc.systemTokenCount)
  ELSE Max(0, budget.total - acc.systemTokenCount - acc.userTokenCount
                - Reserved(budget))

\* pushes content on the system or the user side and records the component
Include(acc, component, content, tokens) ==
  [systemComponents |->
     IF component.type = "system"
     THEN Append(acc.systemComponents, content) ELSE acc.systemComponents,
   userComponents |->
     IF component.type = "system"
     THEN acc.userComponents ELSE Append(acc.userComponents, content),
   systemTokenCount |->
     acc.systemTokenCount + (IF component.type = "system" THEN tokens ELSE 0),
   userTokenCount |->
     acc.userTokenCount + (IF component.type = "system" THEN 0 ELSE tokens),
   includedComponents |->
     Append(acc.includedComponents,
            [id |-> component.id, type |-> component.type,
             tokens |-> tokens, included |-> TRUE])]

Exclude(acc, component, tokens) ==
  [acc EXCEPT !.includedComponents =
     Append(@, [id |-> component.id, type |-> component.type,
                tokens |-> tokens, included |-> FALSE])]

\* one iteration of the loop over the sorted components
ProcessComponent(acc, component, budget, vars) ==
  LET processedContent == applyTemplateVariables(component.content, vars)
      tokenCount == countTokens(processedContent)
      canIncludeInSystem == CanIncludeInSystem(component, tokenCount, acc, budget)
      canIncludeInUser == CanIncludeInUser(component, tokenCount, acc, budget)
  IN  IF MustTruncate(component, canIncludeInSystem, canIncludeInUser)
      THEN LET truncatedContent ==
                 truncateToTokenLimit(processedContent,
                                      AvailableBudget(component, acc, budget))
           IN  Include(acc, component, truncatedContent,
                       countTokens(truncatedContent))
      ELSE IF Fits(component, canIncludeInSystem, canIncludeInUser)
      THEN Include(acc, component, processedContent, tokenCount)
      ELSE Exclude(acc, component, tokenCount)

RECURSIVE ProcessFrom(_, _, _, _, _)
ProcessFrom(sorted, i, acc, budget, vars) ==
  IF i > Len(sorted) THEN acc
  ELSE ProcessFrom(sorted, i + 1,
                   ProcessComponent(acc, sorted[i], budget, vars), budget, vars)

Separator == <<"\n", "\n">>

RECURSIVE Join(_)
\* texts.join('\n\n')
Join(texts) ==
  IF texts = <<>> THEN <<>>
  ELSE IF Len(texts) = 1 THEN texts[1]
  ELSE texts[1] \o Separator \o Join(Tail(texts))

EmptyAcc ==
  [systemComponents |-> <<>>, userComponents |-> <<>>, systemTokenCount |-> 0,
   userTokenCount |-> 0, includedComponents |-> <<>>]

BuildPromptOf(list, budget, vars) ==
  LET acc == ProcessFrom(SortComponents(list), 1, EmptyAcc, budget, vars)
  IN  [systemPrompt |-> Join(acc.systemComponents),
       userPrompt |-> Join(acc.userComponents),
       systemTokens |-> acc.systemTokenCount,
       userTokens |-> acc.userTokenCount,
       totalTokens |-> acc.systemTokenCount + acc.userTokenCount,
       components |-> acc.includedComponents]

\* mutation: the messages are pushed without the emptiness tests
MessagesOfBoth(built) ==
  <<[role |-> "system", content |-> built.systemPrompt],
    [role |-> "user", content |-> built.userPrompt]>>

MessagesOf(built) ==
  (IF built.systemPrompt # <<>>
   THEN <<[role |-> "system", content |-> built.systemPrompt]>> ELSE <<>>)
  \o
  (IF built.userPrompt # <<>>
   THEN <<[role |-> "user", content |-> built.userPrompt]>> ELSE <<>>)

\* ------------------------------------------------------------------------
\* The manager as a state machine
\* ------------------------------------------------------------------------
VARIABLES
  tokenBudget,        \* this.tokenBudget
  components,         \* this.components
  templateVariables,  \* this.templateVariables
  ret,                \* outcome of the last call that uses the component list
  call,               \* the last call of a tokenizer method and its result
  story,              \* the title, paragraphs and theme given for analysis
  analysis,           \* the StoryAnalysis returned for the story, if any
  imagePrompt,        \* the last image prompt built from the analysis
  imagePrompts,       \* the prompts given to generateStoryImages
  generation,         \* where the call of generateStoryImages stands
  batchIndex,         \* i of the batch loop of generateStoryImages
  images,             \* images of generateStoryImages, then its result
  calls,              \* per prompt index, the call of generateImage for it
  speech              \* the SpeechService and the synthesizer it drives

storyVars == <<story, analysis, imagePrompt>>

imageVars == <<imagePrompts, generation, batchIndex, images, calls>>

vars ==
  <<tokenBudget, components, templateVariables, ret, call, story, analysis,
    imagePrompt, imagePrompts, generation, batchIndex, images, calls,
    speech>>

\* an optional theme is <<>> (undefined) or <<theme>>
NoStory == [title |-> "", content |-> <<>>, theme |-> <<>>]

NoAnalysis == [kind |-> "none", value |-> <<>>]

\* the SpeechService after its constructor, in a browser: this.synth is
\* window.speechSynthesis, which holds the utterances handed to it
\* (speaking the first of them unless paused) and counts the utterances
\* it was told to cancel and has not yet reported
NewSpeechService ==
  [isPlaying |-> FALSE, currentIndex |-> 0, textQueue |-> <<>>,
   utterance |-> <<>>, synthQueue |-> <<>>, synthPaused |-> FALSE,
   synthCancelled |-> 0]

\* generateStoryImages has not been called
NoImagesYet ==
  /\ imagePrompts = <<>>
  /\ generation = "idle"
  /\ batchIndex = 0
  /\ images = <<>>
  /\ calls = <<>>

NoImagePrompt == [kind |-> "none", paragraphIndex |-> -1, prompt |-> ""]

\* no story has been submitted for analysis
NoStoryYet ==
  /\ story = NoStory
  /\ analysis = NoAnalysis
  /\ imagePrompt = NoImagePrompt

NoBuilt ==
  [systemPrompt |-> <<>>, userPrompt |-> <<>>, systemTokens |-> 0,
   userTokens |-> 0, totalTokens |-> 0, components |-> <<>>]

Outcome(kind, built, messages) ==
  [kind |-> kind, built |-> built, messages |-> messages]

NoCall ==
  [op |-> "none", text |-> <<>>, maxTokens |-> 0, result |-> <<>>, count |-> 0]

ReturnsThis == Outcome("this", NoBuilt, <<>>)

Throws == Outcome("error", NoBuilt, <<>>)

\* new PromptManager(model, customTokenBudget)
Constructor(model, customTokenBudget) ==
  /\ tokenBudget = Spread(DEFAULT_TOKEN_BUDGETS[model], customTokenBudget)
  /\ components = <<>>
  /\ templateVariables = <<>>
  /\ ret = Outcome("new", NoBuilt, <<>>)
  /\ call = NoCall

HasId(list, id) == \E i \in 1..Len(list) : list[i].id = id

\* mutation: the duplicate-id test is missing
addComponentUnchecked(component) ==
  /\ components' = Append(components, component)
  /\ ret' = ReturnsThis
  /\ UNCHANGED <<tokenBudget, templateVariables, call, storyVars,
                 imageVars,
                 speech>>

addComponent(component) ==
  IF HasId(components, component.id)
  THEN /\ ret' = Throws
       /\ UNCHANGED <<tokenBudget, components, templateVariables, call, storyVars,
                 imageVars,
                 speech>>
  ELSE /\ components' = Append(components, component)
       /\ ret' = ReturnsThis
       /\ UNCHANGED <<tokenBudget, templateVariables, call, storyVars,
                 imageVars,
                 speech>>

\* mutation: the whole list is validated before the first push
AddAllOrNone(existing, list) ==
  LET threw == \E i \in 1..Len(list) :
                 \/ HasId(existing, list[i].id)
                 \/ \E j \in 1..(i - 1) : list[j].id = list[i].id
  IN  [components |-> IF threw THEN existing ELSE existing \o list,
       threw |-> threw]

RECURSIVE AddEach(_, _)
\* components.forEach(component => this.addComponent(component)): the
\* list after the loop and whether an addComponent call threw, which ends
\* the loop
AddEach(existing, list) ==
  IF list = <<>> THEN [components |-> existing, threw |-> FALSE]
  ELSE IF HasId(existing, Head(list).id)
  THEN [components |-> existing, threw |-> TRUE]
  ELSE AddEach(Append(existing, Head(list)), Tail(list))

addComponents(list) ==
  LET done == AddEach(components, list)
  IN  /\ components' = done.components
      /\ ret' = IF done.threw THEN Throws ELSE ReturnsThis
      /\ UNCHANGED <<tokenBudget, templateVariables, call, storyVars,
                 imageVars,
                 speech>>

removeComponent(id) ==
  /\ components' = SelectSeq(components, LAMBDA c : c.id # id)
  /\ ret' = ReturnsThis
  /\ UNCHANGED <<tokenBudget, templateVariables, call, storyVars,
                 imageVars,
                 speech>>

setTemplateVariables(variables) ==
  /\ templateVariables' = Spread(templateVariables, variables)
  /\ ret' = ReturnsThis
  /\ UNCHANGED <<tokenBudget, components, call, storyVars,
                 imageVars,
                 speech>>

setTemplateVariable(key, value) ==
  /\ templateVariables' = Spread(templateVariables, [k \in {key} |-> value])
  /\ ret' = ReturnsThis
  /\ UNCHANGED <<tokenBudget, components, call, storyVars,
                 imageVars,
                 speech>>

\* mutation: the sort is applied to this.components itself
SortedInPlace(list) == SortComponents(list)

\* this.components after `[...this.components].sort(...)`: the sort works
\* on a copy, the member keeps its order
AfterSortOfCopy(list) == list

buildPrompt ==
  /\ ret' = Outcome("built",
                    BuildPromptOf(components, tokenBudget, templateVariables),
                    <<>>)
  /\ components' = AfterSortOfCopy(components)
  /\ UNCHANGED <<tokenBudget, templateVariables, call, storyVars,
                 imageVars,
                 speech>>

\* calls this.buildPrompt() and wraps the two prompts
createChatCompletionMessages ==
  /\ ret' = Outcome("messages", NoBuilt,
                    MessagesOf(BuildPromptOf(components, tokenBudget,
                                             templateVariables)))
  /\ components' = AfterSortOfCopy(components)
  /\ UNCHANGED <<tokenBudget, templateVariables, call, storyVars,
                 imageVars,
                 speech>>

\* manager.countTokens(text)
countTokensCall(text) ==
  /\ call' = [op |-> "countTokens", text |-> text, maxTokens |-> 0,
              result |-> <<>>, count |-> countTokens(text)]
  /\ UNCHANGED <<tokenBudget, components, templateVariables, ret, storyVars,
                 imageVars,
                 speech>>

\* manager.truncateToTokenLimit(text, maxTokens)
truncateToTokenLimitCall(text, maxTokens) ==
  /\ call' = [op |-> "truncateToTokenLimit", text |-> text,
              maxTokens |-> maxTokens,
              result |-> truncateToTokenLimit(text, maxTokens), count |-> 0]
  /\ UNCHANGED <<tokenBudget, components, templateVariables, ret, storyVars,
                 imageVars,
                 speech>>

\* ------------------------------------------------------------------------
\* Inputs of the budget specification
\* ------------------------------------------------------------------------
MaxTotal == 4

Text_abc == <<"a", " ", "b", " ", "c">>

Ids == {"c1", "c2"}

Text_k == <<"{", "{", "k", "}", "}">>

Key_k == <<"k">>

Text_b == <<"b">>

Contents == {<<>>, Text_abc, Text_k}

Component(id, type, content, required, priority) ==
  [id |-> id, type |-> type, content |-> content, required |-> required,
   priority |-> priority]

Components ==
  {Component(id, type, content, required, priority) :
     id \in Ids, type \in {"system", "instruction"}, content \in Contents,
     required \in BOOLEAN, priority \in {<<>>, <<1>>}}

CustomBudgets ==
  {[total |-> t, reserved |-> r] : t \in 1..MaxTotal, r \in {0, 1}}
  \cup {[total |-> t, reserved |-> r, system |-> s] :
          t \in 1..MaxTotal, r \in {0, 1}, s \in {0, 2}}

Init ==
  /\ \E custom \in CustomBudgets : Constructor("gpt-4o", custom)
  /\ NoStoryYet
  /\ NoImagesYet
  /\ speech = NewSpeechService

Next ==
  \/ \E c \in Components : addComponent(c)
  \/ \E id \in Ids : removeComponent(id)
  \/ setTemplateVariable(Key_k, Text_b)
  \/ buildPrompt
  \/ createChatCompletionMessages

Spec == Init /\ [][Next]_vars

\* ------------------------------------------------------------------------
\* Properties of buildPrompt (specification Spec)
\* ------------------------------------------------------------------------
Built == ret.built

\* the audit entries recorded for the component with this id
EntriesOf(built, id) ==
  {j \in 1..Len(built.components) : built.components[j].id = id}

Processed(component) ==
  applyTemplateVariables(component.content, templateVariables)

ComponentById(id) ==
  components[CHOOSE i \in 1..Len(components) : components[i].id = id]

RECURSIVE SumTokens(_, _)
\* token total of the included audit entries whose type is in types
SumTokens(entries, types) ==
  IF entries = <<>> THEN 0
  ELSE (IF Head(entries).included /\ Head(entries).type \in types
        THEN Head(entries).tokens ELSE 0) + SumTokens(Tail(entries), types)

IsPrefix(p, text) == Len(p) <= Len(text) /\ SubSeq(text, 1, Len(p)) = p

\* the texts a component may contribute: its processed content, whole, or,
\* when required, that content cut to some token limit
Pieces(component) ==
  LET whole == Processed(component)
  IN  {whole} \cup
      (IF component.required
       THEN {truncateToTokenLimit(whole, n) : n \in 0..countTokens(whole)}
       ELSE {})

RECURSIVE Assembles(_, _)
\* prompt is the contributions of these components, in this order, joined
\* by the separator
Assembles(prompt, list) ==
  IF list = <<>> THEN prompt = <<>>
  ELSE \E piece \in Pieces(Head(list)) :
         IF Len(list) = 1 THEN prompt = piece
         ELSE /\ IsPrefix(piece \o Separator, prompt)
              /\ Assembles(SubSeq(prompt, Len(piece) + Len(Separator) + 1,
                                  Len(prompt)),
                           Tail(list))

\* the components behind the included audit entries of the given types, in
\* audit order
IncludedOf(built, types) ==
  LET kept == SelectSeq(built.components,
                        LAMBDA e : e.included /\ e.type \in types)
  IN  [j \in 1..Len(kept) |-> ComponentById(kept[j].id)]

UserTypes == PromptComponentType \ {"system"}

\* C1: every component added with required = true has exactly one entry in
\* buildPrompt().components, and that entry has included = true, whatever
\* the budget and the template variables are.
C1_RequiredIncluded ==
  ret.kind = "built" =>
    \A i \in 1..Len(components) :
      components[i].required =>
        /\ Cardinality(EntriesOf(Built, components[i].id)) = 1
        /\ \A j \in EntriesOf(Built, components[i].id) :
             Built.components[j].included

\* a required component whose content exceeds the whole budget was built
C1_Witness ==
  /\ ret.kind = "built"
  /\ \E i \in 1..Len(components) :
       /\ components[i].required
       /\ countTokens(Processed(components[i])) > tokenBudget.total
       /\ \E j \in EntriesOf(Built, components[i].id) :
            Built.components[j].included

\* C2: totalTokens = systemTokens + userTokens <= tokenBudget.total in every
\* built prompt.
C2_TotalIsCeiling ==
  ret.kind = "built" =>
    /\ Built.totalTokens = Built.systemTokens + Built.userTokens
    /\ Built.totalTokens <= tokenBudget.total

\* C5: a non-required component is recorded with the token count of its
\* whole processed content; it is either included whole or contributes no
\* text and no tokens.
C5_NonRequiredAllOrNothing ==
  ret.kind = "built" =>
    /\ \A j \in 1..Len(Built.components) :
         LET e == Built.components[j]
             c == ComponentById(e.id)
         IN  ~c.required => e.tokens = countTokens(Processed(c))
    /\ Built.systemTokens = SumTokens(Built.components, {"system"})
    /\ Built.userTokens = SumTokens(Built.components, UserTypes)
    /\ Assembles(Built.systemPrompt, IncludedOf(Built, {"system"}))
    /\ Assembles(Built.userPrompt, IncludedOf(Built, UserTypes))

\* a non-required component was dropped while another component was included
C5_Witness ==
  /\ ret.kind = "built"
  /\ \E j, k \in 1..Len(Built.components) :
       /\ ~Built.components[j].included
       /\ Built.components[j].tokens > 0
       /\ Built.components[k].included
       /\ ~ComponentById(Built.components[k].id).required
       /\ Built.components[k].tokens > 0

\* C6: systemTokens + userTokens = totalTokens, both are non-negative, and
\* each equals the tokenizer's count of the final prompt string of its side.
C6_TokenAccounting ==
  ret.kind = "built" =>
    /\ Built.systemTokens + Built.userTokens = Built.totalTokens
    /\ Built.systemTokens >= 0
    /\ Built.userTokens >= 0
    /\ Built.systemTokens = countTokens(Built.systemPrompt)
    /\ Built.userTokens = countTokens(Built.userPrompt)

\* C8: createChatCompletionMessages returns the system message iff the
\* built systemPrompt is non-empty, the user message iff the built
\* userPrompt is non-empty, system first, each with the built prompt text.
C8_Messages ==
  ret.kind = "messages" =>
    LET b == BuildPromptOf(components, tokenBudget, templateVariables)
        m == ret.messages
        At(role) == {i \in 1..Len(m) : m[i].role = role}
    IN  /\ Len(m) <= 2
        /\ \A i \in 1..Len(m) : m[i].role \in {"system", "user"}
        /\ Cardinality(At("system")) = (IF b.systemPrompt # <<>> THEN 1 ELSE 0)
        /\ Cardinality(At("user")) = (IF b.userPrompt # <<>> THEN 1 ELSE 0)
        /\ \A i \in At("system") : m[i].content = b.systemPrompt
        /\ \A i \in At("user") : m[i].content = b.userPrompt
        /\ \A i \in At("system") : \A j \in At("user") : i < j

\* both messages were returned
C8_Witness ==
  /\ ret.kind = "messages"
  /\ Len(ret.messages) = 2

\* ------------------------------------------------------------------------
\* The tokenizer methods on their own (specification SpecTokenizer)
\* ------------------------------------------------------------------------
MaxTextLen == 3

MaxLimit == 3

TokenizerChars == {"a", " ", "\n", "]"}

TextsUpTo(n) == UNION {[1..k -> TokenizerChars] : k \in 0..n}

InitTokenizer ==
  /\ Constructor("gpt-4o", <<>>)
  /\ NoStoryYet
  /\ NoImagesYet
  /\ speech = NewSpeechService

NextTokenizer ==
  \/ \E text \in TextsUpTo(MaxTextLen) : countTokensCall(text)
  \/ \E text \in TextsUpTo(MaxTextLen), maxTokens \in 0..MaxLimit :
       truncateToTokenLimitCall(text, maxTokens)

SpecTokenizer == InitTokenizer /\ [][NextTokenizer]_vars

EndsWithMarker(text) ==
  /\ Len(text) >= Len(TruncationMarker)
  /\ SubSeq(text, Len(text) - Len(TruncationMarker) + 1, Len(text))
       = TruncationMarker

\* C3: truncateToTokenLimit(text, maxTokens) returns a text of at most
\* maxTokens tokens, ending with the marker when it was truncated, and
\* countTokens of the empty text is 0.
C3_TruncateFits ==
  /\ call.op = "truncateToTokenLimit" =>
       /\ countTokens(call.result) <= call.maxTokens
       /\ call.result # call.text => EndsWithMarker(call.result)
  /\ (call.op = "countTokens" /\ call.text = <<>>) => call.count = 0

\* ------------------------------------------------------------------------
\* The template-prompt scenario (specification SpecScenario): budget
\* {total: 100, reserved: 0}, a required system component of priority 10 and
\* 50 tokens, a required instruction component of priority 9 and 80 tokens
\* ------------------------------------------------------------------------
\* the text of n tokens "w w ... w"
RepeatWord(w, n) ==
  Flatten([i \in 1..n |-> IF i = 1 THEN <<w>> ELSE <<" ", w>>])

ScenarioWords == {"a", "b"}

ScenarioSystem ==
  {Component("system", "system", RepeatWord(w, 50), TRUE, <<10>>) :
     w \in ScenarioWords}

ScenarioInstruction ==
  {Component("instruction", "instruction", RepeatWord(w, 80), TRUE, <<9>>) :
     w \in ScenarioWords}

InitScenario ==
  /\ \E model \in SupportedModel :
       Constructor(model, [total |-> 100, reserved |-> 0])
  /\ NoStoryYet
  /\ NoImagesYet
  /\ speech = NewSpeechService

NextScenario ==
  \/ \E c \in ScenarioSystem \cup ScenarioInstruction : addComponent(c)
  \/ \E id \in {"system", "instruction"} : removeComponent(id)
  \/ buildPrompt
  \/ createChatCompletionMessages

SpecScenario == InitScenario /\ [][NextScenario]_vars

\* C7: in the scenario the system component is included whole with 50
\* recorded tokens and the instruction component is included, truncated,
\* with at most 50 recorded tokens.
C7_Scenario ==
  (ret.kind = "built" /\ Len(components) = 2) =>
    \A j \in 1..Len(Built.components) :
      LET e == Built.components[j]
      IN  /\ e.included
          /\ e.type = "system" => e.tokens = 50
          /\ e.type = "instruction" => e.tokens <= 50

\* ------------------------------------------------------------------------
\* Ordering (specification SpecOrder): three components with their own
\* contents, every priority pattern and insertion order
\* ------------------------------------------------------------------------
OrderIds == {"c1", "c2", "c3"}

OrderContent(id) ==
  CASE id = "c1" -> <<"a">> [] id = "c2" -> <<"b">> [] id = "c3" -> <<"c">>

OrderComponents ==
  {Component(id, type, OrderContent(id), required, priority) :
     id \in OrderIds, type \in {"system", "instruction"},
     required \in BOOLEAN, priority \in {<<>>, <<0>>, <<1>>}}

InitOrder ==
  /\ \E custom \in {[reserved |-> 0], [total |-> 2, reserved |-> 0]} :
       Constructor("gpt-4o", custom)
  /\ NoStoryYet
  /\ NoImagesYet
  /\ speech = NewSpeechService

NextOrder ==
  \/ \E c \in OrderComponents : addComponent(c)
  \/ \E id \in OrderIds : removeComponent(id)
  \/ buildPrompt

SpecOrder == InitOrder /\ [][NextOrder]_vars

PositionOf(id) == CHOOSE i \in 1..Len(components) : components[i].id = id

\* C9: the audit list holds the components by descending priority (none =
\* 0), equal priorities in insertion order, and each prompt is assembled
\* from its included components in that order.
C9_PriorityOrder ==
  ret.kind = "built" =>
    /\ Len(Built.components) = Len(components)
    /\ \A i \in 1..Len(components) :
         Cardinality(EntriesOf(Built, components[i].id)) = 1
    /\ \A j, k \in 1..Len(Built.components) :
         j < k =>
           LET a == ComponentById(Built.components[j].id)
               b == ComponentById(Built.components[k].id)
               pa == IF a.priority = <<>> THEN 0 ELSE a.priority[1]
               pb == IF b.priority = <<>> THEN 0 ELSE b.priority[1]
           IN  \/ pa > pb
               \/ pa = pb /\ PositionOf(a.id) < PositionOf(b.id)
    /\ Assembles(Built.systemPrompt, IncludedOf(Built, {"system"}))
    /\ Assembles(Built.userPrompt, IncludedOf(Built, UserTypes))

\* three components were built in an order that is not the insertion order:
\* a tie kept in insertion order behind a later, higher-priority component
C9_Witness ==
  /\ ret.kind = "built"
  /\ Len(components) = 3
  /\ components[1].priority = <<>>
  /\ components[2].priority = <<0>>
  /\ components[3].priority = <<1>>
  /\ \A i \in 1..3 : components[i].type = "instruction"
  /\ Built.components[1].id = components[3].id
  /\ Built.components[2].id = components[1].id
  /\ Built.components[3].id = components[2].id
  /\ \A j \in 1..3 : Built.components[j].included

\* ------------------------------------------------------------------------
\* Template variables (specification SpecTemplate): one component whose
\* content holds placeholders, under the default budget, which admits it
\* whole
\* ------------------------------------------------------------------------
Key_n == <<"n">>

Text_n == <<"{", "{", "n", "}", "}">>

TemplateKeys == {Key_k, Key_n}

TemplateValues == {<<>>, Text_b, Text_n}

TemplateContents ==
  {Text_k, Text_k \o <<" ">> \o Text_n, <<"{">> \o Text_k \o <<"}">>}

TemplateComponents ==
  {Component("c1", type, content, FALSE, <<>>) :
     type \in {"system", "instruction"}, content \in TemplateContents}

\* the maps a caller may pass to setTemplateVariables
VariableMaps ==
  UNION {[keys -> TemplateValues] : keys \in SUBSET TemplateKeys}

InitTemplate ==
  /\ Constructor("gpt-4o", <<>>)
  /\ NoStoryYet
  /\ NoImagesYet
  /\ speech = NewSpeechService

NextTemplate ==
  \/ \E c \in TemplateComponents : addComponent(c)
  \/ removeComponent("c1")
  \/ \E key \in TemplateKeys, value \in TemplateValues :
       setTemplateVariable(key, value)
  \/ \E variables \in VariableMaps : setTemplateVariables(variables)
  \/ buildPrompt

SpecTemplate == InitTemplate /\ [][NextTemplate]_vars

\* the text in which every placeholder whose key has been set stands
\* replaced by the value set last, and every other placeholder is kept
SubstitutedAt(text, i) ==
  LET e == PlaceholderEnd(text, i)
      key == SubSeq(text, i + 2, e - 2)
  IN  IF e # 0
      THEN IF key \in DOMAIN templateVariables
           THEN templateVariables[key] ELSE SubSeq(text, i, e)
      ELSE IF \E s \in 1..(i - 1) : PlaceholderEnd(text, s) >= i THEN <<>>
      ELSE <<text[i]>>

Substituted(text) == Flatten([i \in 1..Len(text) |-> SubstitutedAt(text, i)])

PromptOf(built, component) ==
  IF component.type = "system" THEN built.systemPrompt ELSE built.userPrompt

\* C10: buildPrompt replaces every placeholder whose key has been set by
\* the value set last for it, the empty string included, and keeps a
\* placeholder verbatim exactly when its key was never set.
C10_Substitution ==
  (ret.kind = "built" /\ Len(components) = 1) =>
    PromptOf(Built, components[1]) = Substituted(components[1].content)

\* ------------------------------------------------------------------------
\* The component list (specification SpecIds): additions, also of ids
\* already present, and removals
\* ------------------------------------------------------------------------
IdComponents ==
  {Component(id, type, Text_b, FALSE, <<>>) :
     id \in OrderIds, type \in {"system", "instruction"}}

InitIds ==
  /\ Constructor("gpt-4o", <<>>)
  /\ NoStoryYet
  /\ NoImagesYet
  /\ speech = NewSpeechService

NextIds ==
  \/ \E c \in IdComponents : addComponent(c)
  \/ \E id \in OrderIds : removeComponent(id)
  \/ buildPrompt

SpecIds == InitIds /\ [][NextIds]_vars

IdsDistinct ==
  \A i, j \in 1..Len(components) :
    components[i].id = components[j].id => i = j

\* C4: addComponent fails when the id is already present and then leaves
\* the component list as it was; the ids of the list are pairwise distinct
\* in every reachable state.
C4_DuplicateRejected ==
  [][/\ \A c \in IdComponents :
          (HasId(components, c.id) /\ addComponent(c)) =>
            (ret'.kind = "error" /\ components' = components)
     /\ ret'.kind = "error" => components' = components
     /\ IdsDistinct']_vars

\* an addComponent call was rejected with two components in the list
C4_Witness ==
  /\ ret.kind = "error"
  /\ Len(components) = 2

\* ------------------------------------------------------------------------
\* Building as a read-only operation (specification SpecFrame): a list
\* whose order differs from the priority order, a template variable, and
\* repeated calls of buildPrompt and createChatCompletionMessages
\* ------------------------------------------------------------------------
FrameComponents ==
  {Component(id, type, Text_k, FALSE, priority) :
     id \in Ids, type \in {"system", "instruction"},
     priority \in {<<>>, <<1>>}}

InitFrame ==
  /\ Constructor("gpt-4o", <<>>)
  /\ NoStoryYet
  /\ NoImagesYet
  /\ speech = NewSpeechService

NextFrame ==
  \/ \E c \in FrameComponents : addComponent(c)
  \/ \E id \in Ids : removeComponent(id)
  \/ setTemplateVariable(Key_k, Text_b)
  \/ buildPrompt
  \/ createChatCompletionMessages

SpecFrame == InitFrame /\ [][NextFrame]_vars

\* C11: a call of buildPrompt or createChatCompletionMessages leaves the
\* component list (members, order, contents) and the template variables as
\* they were, and a call that directly follows a call of the same method
\* returns an equal result.
C11_BuildIsReadOnly ==
  [][ret'.kind \in {"built", "messages"} =>
       /\ components' = components
       /\ templateVariables' = templateVariables
       /\ tokenBudget' = tokenBudget
       /\ ret.kind = ret'.kind => ret' = ret]_vars

\* a prompt was built from a list that is not in priority order, with a
\* template variable set
C11_Witness ==
  /\ ret.kind = "built"
  /\ Len(components) = 2
  /\ SortComponents(components) # components
  /\ Key_k \in DOMAIN templateVariables
  /\ Built.components # <<>>

\* ------------------------------------------------------------------------
\* Per-type budgets (specification SpecTypes): every component type with
\* a small budget of its own under a total that admits everything
\* ------------------------------------------------------------------------
MaxTypeBudget == 2

TypeComponents ==
  {Component(id, type, content, required, <<>>) :
     id \in Ids, type \in PromptComponentType,
     content \in {Text_abc, Text_b}, required \in BOOLEAN}

TypeBudgets ==
  {[total |-> 4 * MaxTypeBudget, reserved |-> 0, system |-> s,
    instruction |-> b, context |-> b, example |-> b, user_input |-> b,
    formatting |-> b] : s \in 0..MaxTypeBudget, b \in 1..MaxTypeBudget}

InitTypes ==
  /\ \E custom \in TypeBudgets : Constructor("gpt-4o", custom)
  /\ NoStoryYet
  /\ NoImagesYet
  /\ speech = NewSpeechService

NextTypes ==
  \/ \E c \in TypeComponents : addComponent(c)
  \/ \E id \in Ids : removeComponent(id)
  \/ buildPrompt

SpecTypes == InitTypes /\ [][NextTypes]_vars

\* the audit entries of the components that are not required
NonRequiredEntries(built) ==
  SelectSeq(built.components, LAMBDA e : ~ComponentById(e.id).required)

\* C18: for each component type with a configured budget, the token total
\* of the non-required components of that type which buildPrompt includes
\* does not exceed the budget of the type.
C18_TypeBudgetsRestrict ==
  ret.kind = "built" =>
    \A type \in PromptComponentType \cap DOMAIN tokenBudget :
      SumTokens(NonRequiredEntries(Built), {type}) <= tokenBudget[type]

\* C19: a system component is admitted untruncated exactly when the
\* running system token count plus its token count is at most
\* tokenBudget.system, also when that budget is 0.
C19_SystemAdmission ==
  (ret.kind = "built" /\ "system" \in DOMAIN tokenBudget) =>
    \A j \in 1..Len(Built.components) :
      LET entry == Built.components[j]
          component == ComponentById(entry.id)
          running == SumTokens(SubSeq(Built.components, 1, j - 1), {"system"})
      IN  (entry.type = "system" /\ ~component.required) =>
            (entry.included <=>
               running + countTokens(Processed(component))
                 <= tokenBudget.system)

\* ------------------------------------------------------------------------
\* Batch insertion (specification SpecBatch): lists that repeat an id of
\* the manager or an id of their own
\* ------------------------------------------------------------------------
MaxListLen == 2

BatchLists ==
  UNION {[1..n -> IdComponents] : n \in 0..MaxListLen}

InitBatch ==
  /\ Constructor("gpt-4o", <<>>)
  /\ NoStoryYet
  /\ NoImagesYet
  /\ speech = NewSpeechService

NextBatch ==
  \/ \E list \in BatchLists : addComponents(list)
  \/ \E id \in OrderIds : removeComponent(id)
  \/ buildPrompt

SpecBatch == InitBatch /\ [][NextBatch]_vars

\* the positions of a list whose id is in the manager or earlier in the list
Repeats(list) ==
  {i \in 1..Len(list) :
     \/ HasId(components, list[i].id)
     \/ \E j \in 1..(i - 1) : list[j].id = list[i].id}

\* C20: addComponents inserts the elements in list order; it throws at the
\* first element whose id is in the manager or earlier in the list, and
\* then the elements before that one have been appended and stay while
\* that element and the later ones are not inserted.
C20_BatchInsertion ==
  [][\A list \in BatchLists :
       addComponents(list) =>
         IF Repeats(list) = {}
         THEN /\ components' = components \o list
              /\ ret'.kind = "this"
         ELSE LET first == CHOOSE i \in Repeats(list) :
                             \A k \in Repeats(list) : i <= k
              IN  /\ components' = components \o SubSeq(list, 1, first - 1)
                  /\ ret'.kind = "error"]_vars

\* an addComponents call threw and the manager holds all three ids
C20_Witness ==
  /\ ret.kind = "error"
  /\ Len(components) = 3

\* ------------------------------------------------------------------------
\* Story analysis (storyAnalysis.ts).  A story text is a string; positions
\* in a string count from 1 here, paragraph indexes count from 0 as in the
\* source.
\* ------------------------------------------------------------------------
Char(text, i) == SubSeq(text, i, i)

UpperCaseLetters == "ABCDEFGHIJKLMNOPQRSTUVWXYZ"

LowerCaseLetters == "abcdefghijklmnopqrstuvwxyz"

UpperCase == {Char(UpperCaseLetters, i) : i \in 1..Len(UpperCaseLetters)}

LowerCase == {Char(LowerCaseLetters, i) : i \in 1..Len(LowerCaseLetters)}

\* \w of a regular expression
RegexWordChars ==
  UpperCase \cup LowerCase
    \cup {"0", "1", "2", "3", "4", "5", "6", "7", "8", "9", "_"}

\* [.!?]
SentenceEnds == {".", "!", "?"}

Min(a, b) == IF a <= b THEN a ELSE b

Least(S) == CHOOSE x \in S : \A y \in S : x <= y

\* the elements of a set of numbers in ascending order
Ascending(S) ==
  [k \in 1..Cardinality(S) |->
     CHOOSE x \in S : Cardinality({y \in S : y < x}) = k - 1]

RECURSIVE JoinWith(_, _)
\* Array.prototype.join(separator)
JoinWith(texts, separator) ==
  IF texts = <<>> THEN ""
  ELSE IF Len(texts) = 1 THEN texts[1]
  ELSE LET half == Len(texts) \div 2
       IN  JoinWith(SubSeq(texts, 1, half), separator) \o separator
             \o JoinWith(SubSeq(texts, half + 1, Len(texts)), separator)

LowerOf(c) ==
  IF c \in UpperCase
  THEN Char(LowerCaseLetters,
            CHOOSE i \in 1..Len(UpperCaseLetters) :
              Char(UpperCaseLetters, i) = c)
  ELSE c

\* String.prototype.toLowerCase()
toLowerCase(text) ==
  JoinWith([i \in 1..Len(text) |-> LowerOf(Char(text, i))], "")

\* `word` reads in `text` from position i
ReadsAt(text, i, word) ==
  /\ i >= 1
  /\ i + Len(word) - 1 <= Len(text)
  /\ SubSeq(text, i, i + Len(word) - 1) = word

\* the positions from which `word` reads in `text`
Occurrences(text, word) ==
  {i \in 1..(Len(text) - Len(word) + 1) : ReadsAt(text, i, word)}

\* String.prototype.includes(word)
includes(text, word) ==
  \E i \in 1..(Len(text) - Len(word) + 1) : ReadsAt(text, i, word)

\* String.prototype.indexOf(word, from) as a position from 1, 0 for -1
indexOf(text, word, from) ==
  LET hits == {i \in Occurrences(text, word) : i >= from}
  IN  IF hits = {} THEN 0 ELSE Least(hits)

IsWordCharAt(text, i) ==
  i \in 1..Len(text) /\ Char(text, i) \in RegexWordChars

\* \b between positions i - 1 and i
WordBoundary(text, i) == IsWordCharAt(text, i - 1) # IsWordCharAt(text, i)

\* the last position of the run of characters of `class` that starts at i
\* (i - 1 when the run is empty)
ClassRunEnd(text, i, class) ==
  CHOOSE e \in (i - 1)..Len(text) :
    /\ \A k \in i..e : Char(text, k) \in class
    /\ e = Len(text) \/ Char(text, e + 1) \notin class

\* the last position of the match of /\b[A-Z][a-z]+\b/ that starts at i,
\* 0 when none does
NameEnd(text, i) ==
  IF WordBoundary(text, i) /\ Char(text, i) \in UpperCase
  THEN LET e == ClassRunEnd(text, i + 1, LowerCase)
       IN  IF e > i /\ WordBoundary(text, e + 1) THEN e ELSE 0
  ELSE 0

\* text.match(/\b[A-Z][a-z]+\b/g) || []
MatchNames(text) ==
  LET starts == Ascending({i \in 1..Len(text) : NameEnd(text, i) # 0})
  IN  [k \in 1..Len(starts) |->
         SubSeq(text, starts[k], NameEnd(text, starts[k]))]

commonWords ==
  {"The", "A", "An", "It", "This", "That", "Then", "But", "And"}

\* the elements of a sequence without the repetitions, each at its first
\* place
FirstOccurrences(seq) ==
  LET first == Ascending({i \in 1..Len(seq) :
                            \A j \in 1..(i - 1) : seq[j] # seq[i]})
  IN  [k \in 1..Len(first) |-> seq[first[k]]]

\* (fullText.match(new RegExp(`\\b${name}\\b`, 'g')) || []).length
CountWholeWord(text, name) ==
  Cardinality({i \in Occurrences(text, name) :
                 /\ WordBoundary(text, i)
                 /\ WordBoundary(text, i + Len(name))})

\* mutation: a single mention makes a character
MentionedOnce(count) == count >= 1

\* count >= 2
MentionedEnough(count) == count >= 2

\* the entries of the returned record in insertion order
extractCharacters(paragraphs) ==
  LET fullText == JoinWith(paragraphs, " ")
      potentialNames == FirstOccurrences(MatchNames(fullText))
      kept == SelectSeq(potentialNames,
                LAMBDA name :
                  /\ name \notin commonWords
                  /\ MentionedEnough(CountWholeWord(fullText, name)))
  IN  [k \in 1..Len(kept) |->
         [name |-> kept[k],
          mentions |-> CountWholeWord(fullText, kept[k])]]

\* content.findIndex(p => p.toLowerCase().includes(name.toLowerCase())),
\* -1 when no paragraph does
FindIndexIncluding(content, name) ==
  LET hits == {i \in 1..Len(content) :
                 includes(toLowerCase(content[i]), toLowerCase(name))}
  IN  IF hits = {} THEN -1 ELSE Least(hits) - 1

\* the match of new RegExp(`${name}[^.!?]*was[^.!?]*`, 'i') in the text:
\* from the first occurrence of the name that a "was" follows within the
\* sentence, to the end of that sentence; <<>> when there is none
MatchDescription(text, name) ==
  LET lower == toLowerCase(text)
      SentenceEnd(i) ==
        ClassRunEnd(text, i + Len(name), {Char(text, k) : k \in 1..Len(text)}
                                           \ SentenceEnds)
      starts == {i \in Occurrences(lower, toLowerCase(name)) :
                   includes(SubSeq(lower, i + Len(name), SentenceEnd(i)),
                            "was")}
  IN  IF starts = {} THEN <<>>
      ELSE <<SubSeq(text, Least(starts), SentenceEnd(Least(starts)))>>

\* mutation: the half is rounded down
ImportanceRoundedDown(mentions) == Min(10, Max(1, mentions \div 2))

\* Math.min(10, Math.max(1, Math.ceil(mentions / 2)))
ImportanceOf(mentions) == Min(10, Max(1, (mentions + 1) \div 2))

CharacterDescription(content, entry) ==
  LET firstAppearance == FindIndexIncluding(content, entry.name)
      descMatch == MatchDescription(JoinWith(content, " "), entry.name)
  IN  [name |-> entry.name,
       description |-> IF descMatch # <<>> THEN descMatch[1]
                       ELSE "Character named " \o entry.name,
       firstAppearance |-> IF firstAppearance >= 0 THEN firstAppearance
                           ELSE 0,
       importance |-> ImportanceOf(entry.mentions)]

\* Array.prototype.sort((a, b) => b.importance - a.importance), which is
\* stable
SortByImportance(list) ==
  LET Place(i) ==
        Cardinality({j \in 1..Len(list) :
                       \/ list[j].importance > list[i].importance
                       \/ /\ list[j].importance = list[i].importance
                          /\ j < i}) + 1
  IN  [k \in 1..Len(list) |->
         list[CHOOSE i \in 1..Len(list) : Place(i) = k]]

\* Array.prototype.slice(0, n)
Slice(list, n) == SubSeq(list, 1, Min(n, Len(list)))

MainCharacters(content) ==
  LET characterMentions == extractCharacters(content)
  IN  Slice(SortByImportance(
              [k \in 1..Len(characterMentions) |->
                 CharacterDescription(content, characterMentions[k])]), 3)

settingIndicators ==
  <<"in the", "at the", "inside", "outside", "in a", "near the",
    "beneath", "within", "around", "village", "forest", "castle",
    "house", "room", "city", "town", "kingdom", "ocean", "sea", "school">>

JsWhitespace == {" ", "\n", "\t", "\r"}

\* String.prototype.trim()
trim(text) ==
  LET inked == {i \in 1..Len(text) : Char(text, i) \notin JsWhitespace}
  IN  IF inked = {} THEN ""
      ELSE SubSeq(text, Least(inked), CHOOSE x \in inked :
                                        \A y \in inked : y <= x)

\* the phrase from the first occurrence of the indicator to the next full
\* stop after it, or to the end of the paragraph
PhraseFrom(paragraph, indicator) ==
  LET position == indexOf(toLowerCase(paragraph), indicator, 1)
      sentenceEnd == indexOf(paragraph, ".", position)
  IN  SubSeq(paragraph, position,
             IF sentenceEnd > position THEN sentenceEnd - 1
             ELSE Len(paragraph))

\* the first indicator of the list that the paragraph includes, 0 for none
FirstIndicator(paragraph, indicators) ==
  LET lower == toLowerCase(paragraph)
      hits == {k \in 1..Len(indicators) : includes(lower, indicators[k])}
  IN  IF hits = {} THEN 0 ELSE Least(hits)

extractSettings(paragraphs) ==
  LET earlyParagraphs == Slice(paragraphs, Min(5, Len(paragraphs)))
      found == Ascending({i \in 1..Len(earlyParagraphs) :
                 FirstIndicator(earlyParagraphs[i], settingIndicators) # 0})
  IN  [k \in 1..Len(found) |->
         LET paragraph == earlyParagraphs[found[k]]
             indicator ==
               settingIndicators[FirstIndicator(paragraph,
                                                settingIndicators)]
         IN  [name |-> trim(PhraseFrom(paragraph, indicator)),
              description |-> paragraph,
              firstAppearance |-> found[k] - 1]]

\* extractNamesFromParagraph
extractNamesFromParagraph(paragraph) ==
  SelectSeq(MatchNames(paragraph), LAMBDA name : name \notin commonWords)

paragraphSettingIndicators ==
  <<"in the", "at the", "inside", "outside", "in a", "near the">>

\* extractSettingFromParagraph
extractSettingFromParagraph(paragraph) ==
  LET k == FirstIndicator(paragraph, paragraphSettingIndicators)
  IN  IF k = 0 THEN ""
      ELSE trim(PhraseFrom(paragraph, paragraphSettingIndicators[k]))

actionPatterns ==
  <<{"ran", "jumped", "flew", "swam", "climbed", "found", "discovered",
     "opened", "closed", "said", "shouted", "whispered"},
    {"looked", "saw", "heard", "felt", "touched", "smelled", "tasted"},
    {"went", "came", "moved", "traveled", "journeyed", "walked"}>>

\* the first match of /\b(verb|...)[^.!?]+/gi in the paragraph, <<>> when
\* there is none: no verb of a pattern is the beginning of another, so the
\* match runs from the verb to the end of its sentence
MatchAction(paragraph, verbs) ==
  LET lower == toLowerCase(paragraph)
      others == {Char(paragraph, k) : k \in 1..Len(paragraph)}
                  \ SentenceEnds
      EndFrom(i) ==
        LET ends == {ClassRunEnd(paragraph, i + Len(verb), others) :
                       verb \in {v \in verbs : ReadsAt(lower, i, v)}}
        IN  IF ends = {} THEN 0 ELSE Least(ends)
      starts == {i \in 1..Len(paragraph) :
                   /\ WordBoundary(paragraph, i)
                   /\ \E verb \in verbs :
                        /\ ReadsAt(lower, i, verb)
                        /\ ClassRunEnd(paragraph, i + Len(verb), others)
                             >= i + Len(verb)}
  IN  IF starts = {} THEN <<>>
      ELSE <<SubSeq(paragraph, Least(starts), EndFrom(Least(starts)))>>

\* extractActionFromParagraph
extractActionFromParagraph(paragraph) ==
  LET match == [k \in 1..Len(actionPatterns) |->
                  MatchAction(paragraph, actionPatterns[k])]
      matching == {k \in 1..Len(actionPatterns) : match[k] # <<>>}
  IN  IF matching = {} THEN "" ELSE trim(match[Least(matching)][1])

toneKeywords ==
  <<[tone |-> "happy",
     keywords |-> {"happy", "joy", "excited", "fun", "laugh", "smile",
                   "delight"}],
    [tone |-> "sad",
     keywords |-> {"sad", "unhappy", "cry", "tear", "lonely", "sorrow",
                   "upset"}],
    [tone |-> "scared",
     keywords |-> {"afraid", "fear", "scary", "terrified", "frightened",
                   "nervous"}],
    [tone |-> "angry",
     keywords |-> {"angry", "mad", "furious", "rage", "yelled", "shouted"}],
    [tone |-> "peaceful",
     keywords |-> {"calm", "quiet", "peaceful", "gentle", "soft", "serene"}],
    [tone |-> "mysterious",
     keywords |-> {"mystery", "strange", "weird", "curious", "wonder",
                   "magical"}],
    [tone |-> "adventurous",
     keywords |-> {"adventure", "explore", "discover", "journey", "quest",
                   "exciting"}]>>

\* the number of the words that the lower-cased paragraph includes
CountIncluded(paragraph, words) ==
  LET lower == toLowerCase(paragraph)
  IN  Cardinality({word \in words : includes(lower, word)})

\* determineEmotionalTone: the first tone with the largest positive count
determineEmotionalTone(paragraph) ==
  LET lowerParagraph == toLowerCase(paragraph)
      count == [k \in 1..Len(toneKeywords) |->
                  Cardinality({word \in toneKeywords[k].keywords :
                                 includes(lowerParagraph, word)})]
      best == {k \in 1..Len(toneKeywords) :
                 /\ count[k] > 0
                 /\ \A j \in 1..Len(toneKeywords) : count[j] <= count[k]}
  IN  IF best = {} THEN "neutral" ELSE toneKeywords[Least(best)].tone

actionWords ==
  {"suddenly", "quickly", "raced", "jumped", "ran", "flew", "shouted",
   "exclaimed", "burst", "surprise", "discovery"}

climaxIndicators ==
  {"finally", "suddenly", "at last", "to their surprise", "amazing",
   "incredible", "astonished", "shocked", "realized", "discovered",
   "found", "revealed"}

ActionScore(paragraph) == CountIncluded(paragraph, actionWords)

ClimaxScore(paragraph) ==
  CountIncluded(paragraph, climaxIndicators)
    + Cardinality(Occurrences(toLowerCase(paragraph), "!")) * 2

\* mutation: a later paragraph with the same score replaces the best
BestParagraphIdxLast(scores, startIdx, endIdx) ==
  LET range == {i \in startIdx..endIdx : i < Len(scores)}
      best == {i \in range :
                 /\ scores[i + 1] > 0
                 /\ \A j \in range : scores[j + 1] <= scores[i + 1]}
  IN  IF best = {} THEN -1 ELSE CHOOSE i \in best : \A j \in best : j <= i

\* the loop of findActionParagraph and findClimaxParagraph over the
\* scores of the paragraphs: the first index of startIdx..endIdx, below
\* paragraphs.length, with the highest score above 0, -1 when there is
\* none
BestParagraphIdx(scores, startIdx, endIdx) ==
  LET range == {i \in startIdx..endIdx : i < Len(scores)}
      score == [i \in range |-> scores[i + 1]]
      best == {i \in range :
                 score[i] > 0 /\ \A j \in range : score[j] <= score[i]}
  IN  IF best = {} THEN -1 ELSE Least(best)

\* mutation: the loop runs to the end of the story
findActionParagraphToEnd(paragraphs, startIdx, endIdx) ==
  LET bestParagraphIdx ==
        BestParagraphIdx([i \in 1..Len(paragraphs) |->
                            ActionScore(paragraphs[i])],
                         startIdx, Len(paragraphs) - 1)
  IN  IF /\ bestParagraphIdx = -1
         /\ startIdx <= endIdx
         /\ endIdx < Len(paragraphs)
      THEN (startIdx + endIdx) \div 2
      ELSE bestParagraphIdx

\* mutation: no fallback to the middle of the range
findActionParagraphByScoreOnly(paragraphs, startIdx, endIdx) ==
  BestParagraphIdx([i \in 1..Len(paragraphs) |->
                      ActionScore(paragraphs[i])], startIdx, endIdx)

findActionParagraph(paragraphs, startIdx, endIdx) ==
  LET bestParagraphIdx ==
        BestParagraphIdx([i \in 1..Len(paragraphs) |->
                            ActionScore(paragraphs[i])], startIdx, endIdx)
  IN  IF /\ bestParagraphIdx = -1
         /\ startIdx <= endIdx
         /\ endIdx < Len(paragraphs)
      THEN (startIdx + endIdx) \div 2
      ELSE bestParagraphIdx

\* mutation: the fallback is the middle of the search range
ClimaxFallbackMidRange(paragraphs, startIdx, endIdx) ==
  (startIdx + endIdx) \div 2

\* Math.min(Math.floor(paragraphs.length * 0.75), paragraphs.length - 1)
ClimaxFallback(paragraphs, startIdx, endIdx) ==
  Min((Len(paragraphs) * 3) \div 4, Len(paragraphs) - 1)

\* mutation: the search for the climax starts at the first paragraph
findClimaxParagraphFromStart(paragraphs, startIdx, endIdx) ==
  LET bestParagraphIdx ==
        BestParagraphIdx([i \in 1..Len(paragraphs) |->
                            ClimaxScore(paragraphs[i])], 0, endIdx)
  IN  IF bestParagraphIdx = -1
      THEN ClimaxFallback(paragraphs, startIdx, endIdx)
      ELSE bestParagraphIdx

findClimaxParagraph(paragraphs, startIdx, endIdx) ==
  LET bestParagraphIdx ==
        BestParagraphIdx([i \in 1..Len(paragraphs) |->
                            ClimaxScore(paragraphs[i])], startIdx, endIdx)
  IN  IF bestParagraphIdx = -1
      THEN ClimaxFallback(paragraphs, startIdx, endIdx)
      ELSE bestParagraphIdx

NarrativeElement(paragraphs, paragraphIndex, type, importance) ==
  LET paragraph == paragraphs[paragraphIndex + 1]
  IN  [paragraphIndex |-> paragraphIndex,
       type |-> type,
       importance |-> importance,
       characters |-> extractNamesFromParagraph(paragraph),
       setting |-> extractSettingFromParagraph(paragraph),
       action |-> extractActionFromParagraph(paragraph),
       description |-> paragraph,
       emotionalTone |-> determineEmotionalTone(paragraph)]

\* Math.floor(totalParagraphs * 0.6) and Math.floor(totalParagraphs * 0.9):
\* the double products floor to these quotients for every length below
\* 100000
SixTenths(total) == (total * 6) \div 10

NineTenths(total) == (total * 9) \div 10

identifyNarrativeElements(paragraphs) ==
  LET totalParagraphs == Len(paragraphs)
      actionParagraphIndex ==
        findActionParagraph(paragraphs, 1, SixTenths(totalParagraphs))
      climaxIdx ==
        findClimaxParagraph(paragraphs, SixTenths(totalParagraphs),
                            NineTenths(totalParagraphs))
  IN  (IF Len(paragraphs) > 0
       THEN <<NarrativeElement(paragraphs, 0, "introduction", 9)>>
       ELSE <<>>)
      \o (IF Len(paragraphs) > 2 /\ actionParagraphIndex # -1
          THEN <<NarrativeElement(paragraphs, actionParagraphIndex,
                                  "action", 7)>>
          ELSE <<>>)
      \o (IF Len(paragraphs) > 3 /\ climaxIdx # -1
          THEN <<NarrativeElement(paragraphs, climaxIdx, "climax", 10)>>
          ELSE <<>>)
      \o (IF Len(paragraphs) > 1
          THEN <<NarrativeElement(paragraphs, Len(paragraphs) - 1,
                                  "resolution", 8)>>
          ELSE <<>>)

\* Array.prototype.sort((a, b) => a - b)
SortAscending(list) ==
  LET Place(i) ==
        Cardinality({j \in 1..Len(list) :
                       \/ list[j] < list[i]
                       \/ list[j] = list[i] /\ j < i}) + 1
  IN  [k \in 1..Len(list) |->
         list[CHOOSE i \in 1..Len(list) : Place(i) = k]]

\* Array.prototype.indexOf(value) as a position from 1, 0 for -1
PositionIn(list, value) ==
  LET hits == {k \in 1..Len(list) : list[k] = value}
  IN  IF hits = {} THEN 0 ELSE Least(hits)

\* mutation: the repetitions are kept
KeepRepetitions(list) == list

\* [...new Set(list)]
WithoutRepetitions(list) == FirstOccurrences(list)

\* mutation: the slot of the most important element is given up
MostImportantIdx(recommendedParagraphs, sortedElements) == 1

\* recommendedParagraphs.indexOf(
\*   sortedElements[sortedElements.length - 1].paragraphIndex)
LeastImportantIdx(recommendedParagraphs, sortedElements) ==
  PositionIn(recommendedParagraphs,
             sortedElements[Len(sortedElements)].paragraphIndex)

\* mutation: with four paragraphs chosen the top character's first
\* paragraph replaces none of them
selectWithoutReplacement(paragraphs, narrativeElements, characters) ==
  LET top == Slice(SortByImportance(narrativeElements), 4)
      recommendedParagraphs == [k \in 1..Len(top) |-> top[k].paragraphIndex]
      adjusted ==
        IF /\ Len(characters) > 0
           /\ PositionIn(recommendedParagraphs,
                         characters[1].firstAppearance) = 0
           /\ Len(recommendedParagraphs) < 4
        THEN Append(recommendedParagraphs, characters[1].firstAppearance)
        ELSE recommendedParagraphs
  IN  SortAscending(WithoutRepetitions(adjusted))

selectOptimalImageParagraphs(paragraphs, narrativeElements, characters) ==
  LET sortedElements == SortByImportance(narrativeElements)
      top == Slice(sortedElements, 4)
      recommendedParagraphs == [k \in 1..Len(top) |-> top[k].paragraphIndex]
      firstAppearance == characters[1].firstAppearance
      leastImportantIdx ==
        LeastImportantIdx(recommendedParagraphs, sortedElements)
      adjusted ==
        IF /\ Len(characters) > 0
           /\ PositionIn(recommendedParagraphs, firstAppearance) = 0
        THEN IF Len(recommendedParagraphs) < 4
             THEN Append(recommendedParagraphs, firstAppearance)
             ELSE IF /\ Len(sortedElements) > 0
                     /\ sortedElements[Len(sortedElements)].importance < 8
                     /\ leastImportantIdx # 0
             THEN [recommendedParagraphs
                     EXCEPT ![leastImportantIdx] = firstAppearance]
             ELSE recommendedParagraphs
        ELSE recommendedParagraphs
  IN  SortAscending(WithoutRepetitions(adjusted))

\* the StoryAnalysis that analyzeStoryContent(title, content, theme)
\* returns
StoryAnalysis(title, content, theme) ==
  LET narrativeElements == identifyNarrativeElements(content)
      mainCharacters == MainCharacters(content)
  IN  [title |-> title,
       theme |-> theme,
       mainCharacters |-> mainCharacters,
       settings |-> extractSettings(content),
       narrativeElements |-> narrativeElements,
       recommendedImageParagraphs |->
         selectOptimalImageParagraphs(content, narrativeElements,
                                      mainCharacters)]

analyzeStoryContent ==
  /\ analysis' = [kind |-> "returned",
                  value |-> StoryAnalysis(story.title, story.content,
                                          story.theme)]
  /\ UNCHANGED <<tokenBudget, components, templateVariables, ret, call,
                 story, imagePrompt, imageVars,
                 speech>>

\* the scene type and the narrative context of a prompt: those of the
\* first element of the list that is about the paragraph, <<>> for none
SceneOf(narrativeElement) ==
  IF narrativeElement = <<>>
  THEN [sceneType |-> "scene from a children's story",
        narrativeContext |-> ""]
  ELSE IF narrativeElement[1].type = "introduction"
  THEN [sceneType |-> "establishing shot",
        narrativeContext |->
          "This scene introduces the story's main setting and character(s)."]
  ELSE IF narrativeElement[1].type = "action"
  THEN [sceneType |-> "action scene",
        narrativeContext |->
          "This is an important moment showing characters in action."]
  ELSE IF narrativeElement[1].type = "climax"
  THEN [sceneType |-> "climactic moment",
        narrativeContext |->
          "This is the emotional high point of the story."]
  ELSE IF narrativeElement[1].type = "resolution"
  THEN [sceneType |-> "resolution scene",
        narrativeContext |-> "This scene shows how the story concludes."]
  ELSE [sceneType |-> "scene from a children's story",
        narrativeContext |-> ""]

\* Array.prototype.find over a list: <<>> or <<the first element that
\* passes>>
FindFirst(list, passing) ==
  IF passing = {} THEN <<>> ELSE <<list[Least(passing)]>>

\* the prompt that createContextAwareImagePrompt(paragraphContent,
\* analysis, paragraphIndex) returns
ContextAwareImagePrompt(paragraphContent, storyAnalysis, paragraphIndex) ==
  LET elements == storyAnalysis.narrativeElements
      narrativeElement ==
        FindFirst(elements,
                  {k \in 1..Len(elements) :
                     elements[k].paragraphIndex = paragraphIndex})
      scene == SceneOf(narrativeElement)
      lower == toLowerCase(paragraphContent)
      charactersPresent ==
        SelectSeq(storyAnalysis.mainCharacters,
                  LAMBDA character :
                    includes(lower, toLowerCase(character.name)))
      characterContext ==
        IF Len(charactersPresent) > 0
        THEN "Including character(s): "
               \o JoinWith([k \in 1..Len(charactersPresent) |->
                              charactersPresent[k].description], "; ")
        ELSE ""
      relevantSetting ==
        FindFirst(storyAnalysis.settings,
                  {k \in 1..Len(storyAnalysis.settings) :
                     includes(lower,
                              toLowerCase(storyAnalysis.settings[k].name))})
      settingContext ==
        IF relevantSetting # <<>>
        THEN "Setting: " \o relevantSetting[1].name \o ". "
        ELSE ""
      emotionalContext ==
        IF /\ narrativeElement # <<>>
           /\ narrativeElement[1].emotionalTone # "neutral"
        THEN "The emotional tone is " \o narrativeElement[1].emotionalTone
               \o ". "
        ELSE ""
  IN  trim("Illustration for \"" \o storyAnalysis.title \o "\": A "
             \o scene.sceneType \o " showing " \o paragraphContent \o " "
             \o characterContext \o " " \o settingContext
             \o emotionalContext \o scene.narrativeContext)

\* a prompt is built for a paragraph of the analysed story, as the
\* callers of createContextAwareImagePrompt do
createContextAwareImagePrompt(paragraphIndex) ==
  /\ analysis.kind = "returned"
  /\ paragraphIndex \in 0..(Len(story.content) - 1)
  /\ imagePrompt' =
       [kind |-> "built",
        paragraphIndex |-> paragraphIndex,
        prompt |-> ContextAwareImagePrompt(story.content[paragraphIndex + 1],
                                           analysis.value, paragraphIndex)]
  /\ UNCHANGED <<tokenBudget, components, templateVariables, ret, call,
                 story, analysis, imageVars,
                 speech>>

\* ------------------------------------------------------------------------
\* Stories analysed (specification SpecStory): every list of at most
\* MaxParagraphs paragraphs drawn from a few sentences with and without
\* names, keywords, exclamation marks and setting words, and the story of
\* Sam, the key and the fox
\* ------------------------------------------------------------------------
MaxParagraphs == 5

StoryParagraphs ==
  {"Sam ran to the forest.", "The fox watched Sam.", "It rained all day.",
   "Suddenly Ann and Bob jumped!"}

SamStory ==
  <<"Sam ran to the forest.", "Sam found a key.", "The fox watched Sam.">>

Stories ==
  {[title |-> "Sam and the key", content |-> content, theme |-> <<>>] :
     content \in {SamStory}
       \cup UNION {[1..n -> StoryParagraphs] : n \in 0..MaxParagraphs}}

InitStory ==
  /\ Constructor("gpt-4o", <<>>)
  /\ story \in Stories
  /\ analysis = NoAnalysis
  /\ imagePrompt = NoImagePrompt
  /\ NoImagesYet
  /\ speech = NewSpeechService

NextStory == analyzeStoryContent

SpecStory == InitStory /\ [][NextStory]_vars

Analysed == analysis.kind = "returned"

Recommended == analysis.value.recommendedImageParagraphs

\* C12: recommendedImageParagraphs has at most 4 entries, no entry twice,
\* and is in strictly ascending order.
C12_RecommendedShape ==
  Analysed =>
    /\ Len(Recommended) <= 4
    /\ \A i, j \in 1..Len(Recommended) :
         i < j => Recommended[i] < Recommended[j]

\* the action and the climax fell on the same paragraph and the top
\* character first appears outside the beats
C12_Witness ==
  /\ Analysed
  /\ \E i, j \in 1..Len(analysis.value.narrativeElements) :
       /\ i # j
       /\ analysis.value.narrativeElements[i].paragraphIndex
            = analysis.value.narrativeElements[j].paragraphIndex
  /\ analysis.value.mainCharacters # <<>>
  /\ \A i \in 1..Len(analysis.value.narrativeElements) :
       analysis.value.narrativeElements[i].paragraphIndex
         # analysis.value.mainCharacters[1].firstAppearance
  /\ Len(Recommended) = 4

\* ------------------------------------------------------------------------
\* Beats of longer stories (specification SpecBeats): stories of up to
\* MaxStoryLen paragraphs without keywords, but for at most one paragraph
\* that exclaims or carries keywords
\* ------------------------------------------------------------------------
MaxStoryLen == 10

PlainParagraph == "It rained all day."

MarkedParagraphs == {"What a day!", "Suddenly Ann jumped!"}

BeatContents ==
  {[i \in 1..n |-> PlainParagraph] : n \in 0..MaxStoryLen}
    \cup {[i \in 1..n |-> IF i = k THEN marked ELSE PlainParagraph] :
            n \in 1..MaxStoryLen, k \in 1..MaxStoryLen,
            marked \in MarkedParagraphs}

InitBeats ==
  /\ Constructor("gpt-4o", <<>>)
  /\ story \in {[title |-> "Rain", content |-> content, theme |-> <<>>] :
                  content \in BeatContents}
  /\ analysis = NoAnalysis
  /\ imagePrompt = NoImagePrompt
  /\ NoImagesYet
  /\ speech = NewSpeechService

NextBeats == analyzeStoryContent

SpecBeats == InitBeats /\ [][NextBeats]_vars

\* ------------------------------------------------------------------------
\* Image prompts (specification SpecPrompts): the stories of SpecBeats and
\* the story of Sam are analysed and a prompt is built for any of their
\* paragraphs
\* ------------------------------------------------------------------------
InitPrompts ==
  /\ Constructor("gpt-4o", <<>>)
  /\ story \in {[title |-> "Rain", content |-> content, theme |-> <<>>] :
                  content \in BeatContents \cup {SamStory}}
  /\ analysis = NoAnalysis
  /\ imagePrompt = NoImagePrompt
  /\ NoImagesYet
  /\ speech = NewSpeechService

NextPrompts ==
  \/ analyzeStoryContent
  \/ \E paragraphIndex \in 0..(MaxStoryLen - 1) :
       createContextAwareImagePrompt(paragraphIndex)

SpecPrompts == InitPrompts /\ [][NextPrompts]_vars

\* no paragraph of the story contains an action word or a climax indicator
NoKeyword ==
  \A i \in 1..Len(story.content) :
    \A word \in actionWords \cup climaxIndicators :
      ~includes(toLowerCase(story.content[i]), word)

\* the beats returned, as pairs of type and paragraph index
Beats ==
  {<<analysis.value.narrativeElements[k].type,
     analysis.value.narrativeElements[k].paragraphIndex>> :
     k \in 1..Len(analysis.value.narrativeElements)}

\* the four beats of a story of n paragraphs when every search falls back
FallbackBeats(n) ==
  {<<"introduction", 0>>,
   <<"action", (1 + (6 * n) \div 10) \div 2>>,
   <<"climax", Min((3 * n) \div 4, n - 1)>>,
   <<"resolution", n - 1>>}

\* C13 as stated: for a story of N >= 4 paragraphs none of which contains
\* an action or climax keyword, exactly 4 elements are returned, the
\* introduction at 0, the action at the midpoint of its search range, the
\* climax at min(floor(0.75 * N), N - 1) and the resolution at N - 1.
C13_NoKeywordBeats ==
  (Analysed /\ Len(story.content) >= 4 /\ NoKeyword) =>
    /\ Len(analysis.value.narrativeElements) = 4
    /\ Beats = FallbackBeats(Len(story.content))

\* no paragraph of the climax search range, floor(0.6 * N) to
\* floor(0.9 * N), contains an exclamation mark
NoExclamationInClimaxRange ==
  \A i \in ((6 * Len(story.content)) \div 10)
             ..((9 * Len(story.content)) \div 10) :
    i < Len(story.content) => ~includes(story.content[i + 1], "!")

\* C13, amended: for a story of N >= 4 paragraphs none of which contains
\* an action or climax keyword, and with no exclamation mark in the
\* paragraphs floor(0.6 * N) to floor(0.9 * N), exactly 4 elements are
\* returned, the introduction at 0, the action at the midpoint of its
\* search range, the climax at min(floor(0.75 * N), N - 1) and the
\* resolution at N - 1.
C13_QuietBeats ==
  (/\ Analysed
   /\ Len(story.content) >= 4
   /\ NoKeyword
   /\ NoExclamationInClimaxRange) =>
    /\ Len(analysis.value.narrativeElements) = 4
    /\ Beats = FallbackBeats(Len(story.content))

\* a story of 10 plain paragraphs was analysed and its climax is at 7
C13_Witness ==
  /\ Analysed
  /\ Len(story.content) = 10
  /\ NoKeyword
  /\ NoExclamationInClimaxRange
  /\ <<"climax", 7>> \in Beats

MainCharactersReturned == analysis.value.mainCharacters

\* the number of places where the name stands as a whole word in the
\* paragraphs joined by single spaces
Mentions(name) ==
  LET fullText == JoinWith(story.content, " ")
  IN  Cardinality({i \in 1..Len(fullText) :
                     /\ ReadsAt(fullText, i, name)
                     /\ ~IsWordCharAt(fullText, i - 1)
                     /\ ~IsWordCharAt(fullText, i + Len(name))})

\* an upper-case letter followed by one or more lower-case letters
IsCapitalizedWord(name) ==
  /\ Len(name) >= 2
  /\ Char(name, 1) \in UpperCase
  /\ \A i \in 2..Len(name) : Char(name, i) \in LowerCase

HalfRoundedUp(n) == CHOOSE h \in 0..n : 2 * h >= n /\ 2 * h <= n + 1

\* C14: every main character is a capitalized word outside the stoplist
\* that occurs at least twice as a whole word, with importance
\* min(10, max(1, ceil(mentions / 2))); there are at most 3 of them, in
\* non-increasing importance; for the story of Sam, the key and the fox
\* the only one is Sam with importance 2.
C14_MainCharacters ==
  Analysed =>
    /\ Len(MainCharactersReturned) <= 3
    /\ \A k \in 1..Len(MainCharactersReturned) :
         LET character == MainCharactersReturned[k]
         IN  /\ IsCapitalizedWord(character.name)
             /\ character.name \notin
                  {"The", "A", "An", "It", "This", "That", "Then", "But",
                   "And"}
             /\ Mentions(character.name) >= 2
             /\ character.importance
                  = Min(10, Max(1, HalfRoundedUp(Mentions(character.name))))
    /\ \A j, k \in 1..Len(MainCharactersReturned) :
         j < k => MainCharactersReturned[j].importance
                    >= MainCharactersReturned[k].importance
    /\ story.content = SamStory =>
         /\ Len(MainCharactersReturned) = 1
         /\ MainCharactersReturned[1].name = "Sam"
         /\ MainCharactersReturned[1].importance = 2

\* the story of Sam, the key and the fox was analysed
C14_Witness ==
  /\ Analysed
  /\ story.content = SamStory
  /\ Len(MainCharactersReturned) = 1

ElementsReturned == analysis.value.narrativeElements

RecommendedSet == {Recommended[k] : k \in 1..Len(Recommended)}

\* C15: an element whose paragraph is not recommended has importance
\* below 8; the paragraphs of the introduction, the climax and the
\* resolution are all recommended.
C15_BeatsKept ==
  Analysed =>
    \A k \in 1..Len(ElementsReturned) :
      /\ ElementsReturned[k].paragraphIndex \notin RecommendedSet =>
           ElementsReturned[k].importance < 8
      /\ ElementsReturned[k].type
           \in {"introduction", "climax", "resolution"} =>
           ElementsReturned[k].paragraphIndex \in RecommendedSet

\* the top character's first paragraph took the place of the action
\* paragraph among four beats on four different paragraphs
C15_Witness ==
  /\ Analysed
  /\ Len(ElementsReturned) = 4
  /\ MainCharactersReturned # <<>>
  /\ MainCharactersReturned[1].firstAppearance \in RecommendedSet
  /\ \A k \in 1..Len(ElementsReturned) :
       ElementsReturned[k].paragraphIndex
         # MainCharactersReturned[1].firstAppearance
  /\ \E k \in 1..Len(ElementsReturned) :
       /\ ElementsReturned[k].type = "action"
       /\ ElementsReturned[k].paragraphIndex \notin RecommendedSet
  /\ \A j, k \in 1..Len(ElementsReturned) :
       j # k => ElementsReturned[j].paragraphIndex
                  # ElementsReturned[k].paragraphIndex

\* the capitalized words of the story, in order
CapitalizedWords == MatchNames(JoinWith(story.content, " "))

NoRepeatedCapitalizedWord ==
  \A i, j \in 1..Len(CapitalizedWords) :
    CapitalizedWords[i] = CapitalizedWords[j] => i = j

NoSettingIndicator ==
  \A i \in 1..Len(story.content) :
    \A k \in 1..Len(settingIndicators) :
      ~includes(toLowerCase(story.content[i]), settingIndicators[k])

\* C16: for an empty paragraph list the analysis has no main characters,
\* settings, narrative elements or recommended paragraphs; for a story
\* with no repeated capitalized word and no setting indicator it has no
\* main characters and no settings, and still has the beats: the
\* introduction at 0 and, with more than one paragraph, the resolution at
\* the last paragraph.
C16_DegenerateInput ==
  Analysed =>
    /\ story.content = <<>> =>
         /\ MainCharactersReturned = <<>>
         /\ analysis.value.settings = <<>>
         /\ ElementsReturned = <<>>
         /\ Recommended = <<>>
    /\ (/\ story.content # <<>>
        /\ NoRepeatedCapitalizedWord
        /\ NoSettingIndicator) =>
         /\ MainCharactersReturned = <<>>
         /\ analysis.value.settings = <<>>
         /\ <<"introduction", 0>> \in Beats
         /\ Len(story.content) > 1 =>
              <<"resolution", Len(story.content) - 1>> \in Beats
         /\ Recommended # <<>>

\* a story of three paragraphs with capitalized words, none repeated, and
\* no setting indicator was analysed
C16_Witness ==
  /\ Analysed
  /\ Len(story.content) = 3
  /\ CapitalizedWords # <<>>
  /\ NoRepeatedCapitalizedWord
  /\ NoSettingIndicator
  /\ Len(ElementsReturned) = 3

\* the elements returned that have this type
ElementsOfType(type) ==
  {k \in 1..Len(ElementsReturned) : ElementsReturned[k].type = type}

\* there is exactly one element of the type when `present`, none otherwise
OneIff(type, present) ==
  Cardinality(ElementsOfType(type)) = IF present THEN 1 ELSE 0

\* C21: for a story of N paragraphs the narrative elements are exactly one
\* introduction (importance 9, index 0) iff N >= 1, one action beat
\* (importance 7) iff N > 2, one climax (importance 10) iff N > 3 and one
\* resolution (importance 8, index N - 1) iff N > 1, and nothing else.
C21_BeatsByLength ==
  Analysed =>
    LET N == Len(story.content)
    IN  /\ OneIff("introduction", N >= 1)
        /\ OneIff("action", N > 2)
        /\ OneIff("climax", N > 3)
        /\ OneIff("resolution", N > 1)
        /\ \A k \in 1..Len(ElementsReturned) :
             LET e == ElementsReturned[k]
             IN  \/ e.type = "introduction" /\ e.importance = 9
                      /\ e.paragraphIndex = 0
                 \/ e.type = "action" /\ e.importance = 7
                 \/ e.type = "climax" /\ e.importance = 10
                 \/ e.type = "resolution" /\ e.importance = 8
                      /\ e.paragraphIndex = N - 1

\* a story of three paragraphs without action word was analysed: its
\* action beat comes from the fallback
C21_Witness ==
  /\ Analysed
  /\ Len(story.content) = 3
  /\ \A i \in 1..3 : ActionScore(story.content[i]) = 0
  /\ Len(ElementsReturned) = 3

\* the paragraph indexes of the elements of this type
IndexesOfType(type) ==
  {ElementsReturned[k].paragraphIndex : k \in ElementsOfType(type)}

\* C22 as stated: the paragraph index p of an action beat satisfies
\* 1 <= p < floor(0.6 * N), whether chosen by score or by the fallback.
C22_ActionHalfOpen ==
  Analysed =>
    \A p \in IndexesOfType("action") :
      1 <= p /\ p < (6 * Len(story.content)) \div 10

\* C22, amended: the paragraph index p of an action beat satisfies
\* 1 <= p <= floor(0.6 * N), whether chosen by score or by the fallback.
C22_ActionClosed ==
  Analysed =>
    \A p \in IndexesOfType("action") :
      1 <= p /\ p <= (6 * Len(story.content)) \div 10

\* an action beat chosen by score stands at floor(0.6 * N) in a story of
\* five paragraphs
C22_Witness ==
  /\ Analysed
  /\ Len(story.content) = 5
  /\ IndexesOfType("action") = {3}
  /\ ActionScore(story.content[4]) > 0

\* 1 per climax indicator that the paragraph with this index includes and
\* 2 per exclamation mark in it
ClimaxPoints(i) ==
  LET lower == toLowerCase(story.content[i + 1])
  IN  Cardinality({word \in climaxIndicators : includes(lower, word)})
        + 2 * Cardinality({k \in 1..Len(lower) : Char(lower, k) = "!"})

\* the paragraph indexes floor(0.6 * N) to floor(0.9 * N) of the story
ClimaxCandidates ==
  {i \in ((6 * Len(story.content)) \div 10)
           ..((9 * Len(story.content)) \div 10) : i < Len(story.content)}

\* the climax was chosen by score
ClimaxByScore ==
  /\ Len(story.content) > 3
  /\ \E i \in ClimaxCandidates : ClimaxPoints(i) > 0

\* C23 as stated: a climax chosen by score has its paragraph index p in
\* the half-open range [floor(0.6 * N), floor(0.9 * N)) and is the first
\* paragraph of that range with the maximal score.
C23_ClimaxHalfOpen ==
  (Analysed /\ ClimaxByScore) =>
    \A p \in IndexesOfType("climax") :
      LET range == ClimaxCandidates \ {(9 * Len(story.content)) \div 10}
      IN  /\ p \in range
          /\ \A i \in range : ClimaxPoints(i) <= ClimaxPoints(p)
          /\ \A i \in range : i < p => ClimaxPoints(i) < ClimaxPoints(p)

\* C23, amended: a climax chosen by score has its paragraph index p in the
\* closed range [floor(0.6 * N), floor(0.9 * N)] and is the first paragraph
\* of that range with the maximal score.
C23_ClimaxClosed ==
  (Analysed /\ ClimaxByScore) =>
    /\ IndexesOfType("climax") # {}
    /\ \A p \in IndexesOfType("climax") :
         /\ p \in ClimaxCandidates
         /\ \A i \in ClimaxCandidates : ClimaxPoints(i) <= ClimaxPoints(p)
         /\ \A i \in ClimaxCandidates :
              i < p => ClimaxPoints(i) < ClimaxPoints(p)

\* a climax chosen by score stands at floor(0.9 * N) in a story of five
\* paragraphs
C23_Witness ==
  /\ Analysed
  /\ Len(story.content) = 5
  /\ ClimaxByScore
  /\ IndexesOfType("climax") = {4}

\* C24: when mainCharacters is not empty, the firstAppearance of
\* mainCharacters[0] is a paragraph index of the story and is one of the
\* recommendedImageParagraphs.
C24_FirstAppearanceRecommended ==
  (Analysed /\ MainCharactersReturned # <<>>) =>
    /\ MainCharactersReturned[1].firstAppearance
         \in 0..(Len(story.content) - 1)
    /\ \E k \in 1..Len(Recommended) :
         Recommended[k] = MainCharactersReturned[1].firstAppearance

\* the top character first appears after the first paragraph, in a
\* paragraph that is no beat of the story
C24_Witness ==
  /\ Analysed
  /\ MainCharactersReturned # <<>>
  /\ MainCharactersReturned[1].firstAppearance > 0
  /\ MainCharactersReturned[1].firstAppearance
       \notin {ElementsReturned[k].paragraphIndex :
                 k \in 1..Len(ElementsReturned)}

\* the scene-type label of a type of narrative element
SceneTypeLabel(type) ==
  CASE type = "introduction" -> "establishing shot"
    [] type = "action" -> "action scene"
    [] type = "climax" -> "climactic moment"
    [] type = "resolution" -> "resolution scene"

\* the prompt built announces a scene of this type
CarriesLabel(label) ==
  ReadsAt(imagePrompt.prompt, 1,
          "Illustration for \"" \o story.title \o "\": A " \o label
            \o " showing ")

\* C25: the prompt built for the paragraph index of a narrative element
\* carries the scene-type label of that element's type; the prompt for an
\* index without narrative element carries the default label.
C25_SceneTypeLabels ==
  imagePrompt.kind = "built" =>
    LET about == {k \in 1..Len(ElementsReturned) :
                    ElementsReturned[k].paragraphIndex
                      = imagePrompt.paragraphIndex}
    IN  /\ \A k \in about :
             CarriesLabel(SceneTypeLabel(ElementsReturned[k].type))
        /\ about = {} => CarriesLabel("scene from a children's story")

\* the position of a type of beat in the structure of a story
BeatRank(type) ==
  CASE type = "introduction" -> 1
    [] type = "action" -> 2
    [] type = "climax" -> 3
    [] type = "resolution" -> 4

\* C26: the paragraph indexes of the beats of a non-empty story are valid
\* and in the order of the story structure: 0 = introduction <= action <=
\* climax <= resolution = N - 1, over the beats that exist.
C26_BeatsInStoryOrder ==
  (Analysed /\ Len(story.content) >= 1) =>
    /\ \A k \in 1..Len(ElementsReturned) :
         /\ ElementsReturned[k].paragraphIndex
              \in 0..(Len(story.content) - 1)
         /\ ElementsReturned[k].type = "introduction"
              => ElementsReturned[k].paragraphIndex = 0
         /\ ElementsReturned[k].type = "resolution"
              => ElementsReturned[k].paragraphIndex = Len(story.content) - 1
    /\ \A j, k \in 1..Len(ElementsReturned) :
         BeatRank(ElementsReturned[j].type) < BeatRank(ElementsReturned[k].type)
           => ElementsReturned[j].paragraphIndex
                <= ElementsReturned[k].paragraphIndex

\* action and climax were both chosen by score, the paragraphs before the
\* action beat holding climax indicators and exclamation marks as well
C26_Witness ==
  /\ Analysed
  /\ Len(story.content) = 5
  /\ ClimaxByScore
  /\ \E p \in IndexesOfType("action") :
       /\ ActionScore(story.content[p + 1]) > 0
       /\ \E i \in 0..(p - 1) : ClimaxPoints(i) > 0
       /\ \A q \in IndexesOfType("climax") : p < q

\* ------------------------------------------------------------------------
\* Image generation (generateImage and generateStoryImages of the image
\* service, POST of api/generate-image).  A timer or a request in flight is
\* a step that happens at some later moment; the text of a prompt has no
\* part in the control flow and is kept as given.
\* ------------------------------------------------------------------------
MAX_RETRY_ATTEMPTS == 3

BATCH_SIZE == 2

\* the error types of POST's fallback answer
FallbackTypes ==
  {"general", "api-key", "timeout", "rate-limit", "content-policy"}

\* what the awaits of fetch and response.json() in generateImage yield: an
\* exception, POST's answer with a generated image, or POST's fallback
\* answer for an error type
Responses ==
  {[kind |-> "throws", type |-> ""], [kind |-> "success", type |-> ""]}
    \cup {[kind |-> "fallback", type |-> type] : type \in FallbackTypes}

NoResponse == [kind |-> "none", type |-> ""]

\* the URL of the image that the image model made for a prompt
GeneratedImageUrl(prompt) == "https://images.example/" \o prompt

\* getFallbackImageUrl(errorType) of the route
RouteFallbackImageUrl(errorType) ==
  "https://placehold.co/800x800/" \o
    (CASE errorType = "api-key" -> "fee2e2/b91c1c?text=API+Key+Error"
       [] errorType = "timeout" -> "fef3c7/92400e?text=Request+Timeout"
       [] errorType = "content-policy"
            -> "f3e8ff/7e22ce?text=Content+Policy+Violation"
       [] errorType = "rate-limit"
            -> "dcfce7/166534?text=Rate+Limit+Exceeded"
       [] OTHER -> "f0f9ff/0369a1?text=Image+Generation+Failed")

\* getFallbackImageUrl() of the image service, without theme
getFallbackImageUrl ==
  "https://placehold.co/800x800/e0f2fe/0284c7?text=Temporary+Illustration"

\* data.imageUrl of an answer of POST to a request for the prompt
ImageUrlOf(response, prompt) ==
  IF response.kind = "success" THEN GeneratedImageUrl(prompt)
  ELSE RouteFallbackImageUrl(response.type)

\* mutation: any fallback answer is retried
RetryAnyFallback(retryCount, response) ==
  /\ response.kind = "fallback"
  /\ retryCount < MAX_RETRY_ATTEMPTS

\* the retry condition for an answer: data.fallback && retryCount <
\* MAX_RETRY_ATTEMPTS && (data.type === 'timeout' || data.type ===
\* 'rate-limit')
RetryFallback(retryCount, response) ==
  /\ response.kind = "fallback"
  /\ retryCount < MAX_RETRY_ATTEMPTS
  /\ response.type \in {"timeout", "rate-limit"}

\* the retry condition of the catch block
RetryError(retryCount) == retryCount < MAX_RETRY_ATTEMPTS

\* a call of generateImage that has not begun
CallNotStarted ==
  [phase |-> "unstarted", retryCount |-> 0, requests |-> 0,
   last |-> NoResponse, result |-> ""]

\* mutation: a batch is one prompt
BatchOfOne(index, length) == {index}

\* the indexes of enhancedPrompts.slice(i, i + BATCH_SIZE)
BatchOf(index, length) ==
  {p \in index..(index + BATCH_SIZE - 1) : p < length}

\* mutation: the batch is over as soon as one of its calls has returned
AnySettled(batch, callStates) ==
  \E p \in batch : callStates[p].phase = "returned"

\* Promise.all over the callbacks of a batch has resolved: each has
\* returned
AllSettled(batch, callStates) ==
  \A p \in batch : callStates[p].phase = "returned"

\* generateStoryImages(imagePrompts, storyTitle, theme) runs to its first
\* await: the first batch is cut and its callbacks wait for their turn
generateStoryImages(prompts) ==
  /\ generation = "idle"
  /\ imagePrompts' = prompts
  /\ batchIndex' = 0
  /\ images' = <<>>
  /\ calls' = [p \in 0..(Len(prompts) - 1) |->
                 IF p \in BatchOf(0, Len(prompts))
                 THEN [CallNotStarted EXCEPT !.phase = "staggered"]
                 ELSE CallNotStarted]
  /\ generation' = IF Len(prompts) > 0 THEN "batch" ELSE "resolved"
  /\ UNCHANGED <<tokenBudget, components, templateVariables, ret, call,
                 storyVars,
                 speech>>

\* delay(index * DELAY_BETWEEN_REQUESTS) is over for a callback:
\* generateImage(prompt) is called and sends its first request
staggerElapsed(p) ==
  /\ generation = "batch"
  /\ p \in DOMAIN calls
  /\ calls[p].phase = "staggered"
  /\ calls' = [calls EXCEPT ![p].phase = "fetching",
                            ![p].requests = @ + 1]
  /\ UNCHANGED <<tokenBudget, components, templateVariables, ret, call,
                 storyVars, imagePrompts, generation, batchIndex, images,
                 speech>>

\* the request of a call of generateImage is over: the call returns
\* data.imageUrl or the fallback of the service, or waits to retry
fetchSettles(p, response) ==
  /\ p \in DOMAIN calls
  /\ calls[p].phase = "fetching"
  /\ calls' =
       [calls EXCEPT ![p] =
          IF response.kind = "throws"
          THEN IF RetryError(@.retryCount)
               THEN [@ EXCEPT !.phase = "retrying", !.last = response]
               ELSE [@ EXCEPT !.phase = "returned", !.last = response,
                              !.result = getFallbackImageUrl]
          ELSE IF RetryFallback(@.retryCount, response)
               THEN [@ EXCEPT !.phase = "retrying", !.last = response]
               ELSE [@ EXCEPT !.phase = "returned", !.last = response,
                              !.result =
                                ImageUrlOf(response, imagePrompts[p + 1])]]
  /\ UNCHANGED <<tokenBudget, components, templateVariables, ret, call,
                 storyVars, imagePrompts, generation, batchIndex, images,
                 speech>>

\* delay(RETRY_DELAY * (retryCount + 1)) is over: generateImage(prompt,
\* retryCount + 1) sends the next request
retryDelayElapsed(p) ==
  /\ p \in DOMAIN calls
  /\ calls[p].phase = "retrying"
  /\ calls' = [calls EXCEPT ![p].phase = "fetching",
                            ![p].retryCount = @ + 1,
                            ![p].requests = @ + 1]
  /\ UNCHANGED <<tokenBudget, components, templateVariables, ret, call,
                 storyVars, imagePrompts, generation, batchIndex, images,
                 speech>>

\* Promise.all of the batch resolves: its results are pushed in the order
\* of the prompts; the loop waits before the next batch or the images are
\* returned
batchSettled ==
  /\ generation = "batch"
  /\ AllSettled(BatchOf(batchIndex, Len(imagePrompts)), calls)
  /\ LET batch == BatchOf(batchIndex, Len(imagePrompts))
         batchResults ==
           [k \in 1..Cardinality(batch) |-> calls[batchIndex + k - 1].result]
     IN  images' = images \o batchResults
  /\ generation' = IF batchIndex + BATCH_SIZE < Len(imagePrompts)
                   THEN "pausing" ELSE "resolved"
  /\ UNCHANGED <<tokenBudget, components, templateVariables, ret, call,
                 storyVars, imagePrompts, batchIndex, calls,
                 speech>>

\* delay(DELAY_BETWEEN_REQUESTS * 2) is over: i += BATCH_SIZE, the next
\* batch is cut and its callbacks wait for their turn
batchDelayElapsed ==
  /\ generation = "pausing"
  /\ batchIndex' = batchIndex + BATCH_SIZE
  /\ calls' = [p \in DOMAIN calls |->
                 IF p \in BatchOf(batchIndex + BATCH_SIZE, Len(imagePrompts))
                 THEN [calls[p] EXCEPT !.phase = "staggered"]
                 ELSE calls[p]]
  /\ generation' = "batch"
  /\ UNCHANGED <<tokenBudget, components, templateVariables, ret, call,
                 storyVars, imagePrompts, images,
                 speech>>

\* ------------------------------------------------------------------------
\* Story images (specification SpecImages): generateStoryImages on up to
\* MaxPrompts prompts, every request answered in every way
\* ------------------------------------------------------------------------
MaxPrompts == 3

PromptTexts == <<"a fox", "a key", "a boat">>

\* the lists of up to MaxPrompts prompts that go through the texts in turn
PromptLists ==
  {[k \in 1..n |-> PromptTexts[((k + first) % Len(PromptTexts)) + 1]] :
     n \in 0..MaxPrompts, first \in 0..1}

InitImages ==
  /\ Constructor("gpt-4o", <<>>)
  /\ NoStoryYet
  /\ NoImagesYet
  /\ speech = NewSpeechService

NextImages ==
  \/ \E prompts \in PromptLists : generateStoryImages(prompts)
  \/ \E p \in 0..(MaxPrompts - 1) : staggerElapsed(p)
  \/ \E p \in 0..(MaxPrompts - 1) :
       \E response \in Responses : fetchSettles(p, response)
  \/ \E p \in 0..(MaxPrompts - 1) : retryDelayElapsed(p)
  \/ batchSettled
  \/ batchDelayElapsed

SpecImages == InitImages /\ [][NextImages]_vars

\* the URLs that a call of generateImage for the prompt may return
ResultsFor(prompt) ==
  {GeneratedImageUrl(prompt), getFallbackImageUrl}
    \cup {RouteFallbackImageUrl(type) : type \in FallbackTypes}

\* C27: generateStoryImages does not reject, and once settled it has
\* resolved to one URL per prompt, element i being what generateImage
\* returned for imagePrompts[i]: the generated image or a fallback.
C27_OneUrlPerPrompt ==
  /\ generation # "rejected"
  /\ generation = "resolved" =>
       /\ Len(images) = Len(imagePrompts)
       /\ \A p \in 0..(Len(imagePrompts) - 1) :
            /\ calls[p].phase = "returned"
            /\ images[p + 1] = calls[p].result
            /\ images[p + 1] \in ResultsFor(imagePrompts[p + 1])

\* three prompts were resolved: the first to its generated image after a
\* retry, the second to the fallback of the service after four requests
\* that threw, the third to a fallback of the route
C27_Witness ==
  /\ generation = "resolved"
  /\ Len(imagePrompts) = 3
  /\ images = <<GeneratedImageUrl(imagePrompts[1]), getFallbackImageUrl,
                RouteFallbackImageUrl("content-policy")>>
  /\ calls[0].requests = 2
  /\ calls[1].requests = 4

\* the prompt indexes whose request is in flight
InFlight == {p \in DOMAIN calls : calls[p].phase = "fetching"}

\* C28: at most BATCH_SIZE image requests are in flight, and a call of a
\* later batch has sent a request only when every call of the earlier
\* batches has returned, its retries included.
C28_BatchesInTurn ==
  /\ Cardinality(InFlight) <= BATCH_SIZE
  /\ \A p, q \in DOMAIN calls :
       (q \div BATCH_SIZE < p \div BATCH_SIZE /\ calls[p].requests > 0)
         => calls[q].phase = "returned"

\* the request of the second batch is in flight after the first batch
\* went through retries
C28_Witness ==
  /\ generation = "batch"
  /\ batchIndex = BATCH_SIZE
  /\ InFlight = {BATCH_SIZE}
  /\ calls[0].requests = 2
  /\ calls[1].requests = MAX_RETRY_ATTEMPTS + 1

\* ------------------------------------------------------------------------
\* Retries (specification SpecRetry): the calls of generateImage of one
\* batch.  Every timer runs out and POST answers every request, by its
\* result or by its fallback answer after 30 seconds at the latest; a
\* request that fails on the way throws in the service.
\* ------------------------------------------------------------------------
NextRetry ==
  \/ \E prompts \in {list \in PromptLists : Len(list) <= BATCH_SIZE} :
       generateStoryImages(prompts)
  \/ \E p \in 0..(BATCH_SIZE - 1) : staggerElapsed(p)
  \/ \E p \in 0..(BATCH_SIZE - 1) :
       \E response \in Responses : fetchSettles(p, response)
  \/ \E p \in 0..(BATCH_SIZE - 1) : retryDelayElapsed(p)
  \/ batchSettled

SpecRetry ==
  /\ InitImages
  /\ [][NextRetry]_vars
  /\ \A p \in 0..(BATCH_SIZE - 1) :
       /\ WF_vars(staggerElapsed(p))
       /\ WF_vars(\E response \in Responses : fetchSettles(p, response))
       /\ WF_vars(retryDelayElapsed(p))

\* what C29 says of the call of generateImage for prompt index p in a
\* state
RetriesAsStated(p) ==
  /\ calls[p].phase # "rejected"
  /\ calls[p].requests <= MAX_RETRY_ATTEMPTS + 1
  /\ calls[p].phase = "retrying" =>
       \/ calls[p].last.kind = "throws"
       \/ /\ calls[p].last.kind = "fallback"
          /\ calls[p].last.type \in {"timeout", "rate-limit"}
  /\ calls[p].last.kind = "success" =>
       /\ calls[p].phase = "returned"
       /\ calls[p].result = GeneratedImageUrl(imagePrompts[p + 1])
  /\ (/\ calls[p].last.kind = "fallback"
      /\ calls[p].last.type \notin {"timeout", "rate-limit"}) =>
       /\ calls[p].phase = "returned"
       /\ calls[p].result = RouteFallbackImageUrl(calls[p].last.type)
  /\ (calls[p].phase = "returned" /\ calls[p].last.kind = "throws") =>
       /\ calls[p].requests = MAX_RETRY_ATTEMPTS + 1
       /\ calls[p].result = getFallbackImageUrl

\* C29: a call of generateImage returns, without rejecting and after at
\* most MAX_RETRY_ATTEMPTS + 1 requests; it retries only after an
\* exception or a fallback answer of type timeout or rate-limit, never
\* after a generated image or another fallback answer, and returns the
\* fallback of the service when its last request throws.
C29_BoundedRetries ==
  /\ [](\A p \in DOMAIN calls : RetriesAsStated(p))
  /\ \A p \in 0..(BATCH_SIZE - 1) :
       (p \in DOMAIN calls /\ calls[p].phase # "unstarted")
         ~> (p \in DOMAIN calls /\ calls[p].phase = "returned")

\* a call returned the fallback of the service after four requests, the
\* last of which threw
C29_Witness ==
  /\ 0 \in DOMAIN calls
  /\ calls[0].phase = "returned"
  /\ calls[0].requests = MAX_RETRY_ATTEMPTS + 1
  /\ calls[0].last.kind = "throws"
  /\ calls[0].result = getFallbackImageUrl

\* ------------------------------------------------------------------------
\* Narration (SpeechService).  The synthesizer follows the Web Speech API:
\* speak(u) queues u, the first utterance of the queue is spoken unless the
\* synthesizer is paused, pause() and resume() set and clear the paused
\* state whatever the queue holds, cancel() empties the queue and leaves
\* the paused state alone; an utterance that ends fires end, one that
\* fails or was cancelled fires error.  Reports of cancelled utterances
\* beyond MaxCancelled are taken as never delivered.
\* ------------------------------------------------------------------------
MaxTexts == 2

MaxUtterances == 2

MaxCancelled == 1

\* this.synth.cancel()
SynthCancel(s) ==
  [s EXCEPT !.synthQueue = <<>>,
            !.synthCancelled = Min(@ + Len(s.synthQueue), MaxCancelled)]

\* speakCurrent()
AfterSpeakCurrent(s) ==
  IF s.currentIndex >= Len(s.textQueue)
  THEN [s EXCEPT !.isPlaying = FALSE]
  ELSE [s EXCEPT !.utterance = <<s.textQueue[s.currentIndex + 1]>>,
                 !.synthQueue = Append(@, s.textQueue[s.currentIndex + 1]),
                 !.isPlaying = TRUE]

\* pause()
AfterPause(s) ==
  IF s.isPlaying
  THEN [s EXCEPT !.synthPaused = TRUE, !.isPlaying = FALSE]
  ELSE s

\* resume()
AfterResume(s) ==
  IF ~s.isPlaying /\ s.utterance # <<>>
  THEN [s EXCEPT !.synthPaused = FALSE, !.isPlaying = TRUE]
  ELSE s

\* utterance.onend
OnEnd(s) == AfterSpeakCurrent([s EXCEPT !.currentIndex = @ + 1])

\* utterance.onerror
OnError(s) == [s EXCEPT !.isPlaying = FALSE]

\* the synthesizer is left with at most MaxUtterances utterances
Hands(after) == Len(after.synthQueue) <= MaxUtterances

speak(texts) ==
  /\ LET after ==
           AfterSpeakCurrent([speech EXCEPT !.textQueue = texts,
                                            !.currentIndex = 0])
     IN  /\ Hands(after)
         /\ speech' = after
  /\ UNCHANGED <<tokenBudget, components, templateVariables, ret, call,
                 storyVars, imageVars>>

pause ==
  /\ LET after ==
           AfterPause(speech)
     IN  /\ Hands(after)
         /\ speech' = after
  /\ UNCHANGED <<tokenBudget, components, templateVariables, ret, call,
                 storyVars, imageVars>>

resume ==
  /\ LET after ==
           AfterResume(speech)
     IN  /\ Hands(after)
         /\ speech' = after
  /\ UNCHANGED <<tokenBudget, components, templateVariables, ret, call,
                 storyVars, imageVars>>

stop ==
  /\ LET after ==
           [SynthCancel(speech) EXCEPT !.isPlaying = FALSE,
                                       !.currentIndex = 0]
     IN  /\ Hands(after)
         /\ speech' = after
  /\ UNCHANGED <<tokenBudget, components, templateVariables, ret, call,
                 storyVars, imageVars>>

jumpTo(index) ==
  /\ LET after ==
           IF index < 0 \/ index >= Len(speech.textQueue)
           THEN speech
           ELSE AfterSpeakCurrent([SynthCancel(speech)
                                     EXCEPT !.currentIndex = index])
     IN  /\ Hands(after)
         /\ speech' = after
  /\ UNCHANGED <<tokenBudget, components, templateVariables, ret, call,
                 storyVars, imageVars>>

togglePlayPause ==
  /\ LET after ==
           IF speech.isPlaying THEN AfterPause(speech)
           ELSE IF speech.currentIndex < Len(speech.textQueue)
           THEN AfterResume(speech)
           ELSE AfterSpeakCurrent([speech EXCEPT !.currentIndex = 0])
     IN  /\ Hands(after)
         /\ speech' = after
  /\ UNCHANGED <<tokenBudget, components, templateVariables, ret, call,
                 storyVars, imageVars>>

\* the utterance being spoken ends: its end event is handled
utteranceEnds ==
  /\ speech.synthQueue # <<>>
  /\ ~speech.synthPaused
  /\ LET after ==
           OnEnd([speech EXCEPT !.synthQueue = Tail(@)])
     IN  /\ Hands(after)
         /\ speech' = after
  /\ UNCHANGED <<tokenBudget, components, templateVariables, ret, call,
                 storyVars, imageVars>>

\* the first utterance of the queue fails: its error event is handled
utteranceFails ==
  /\ speech.synthQueue # <<>>
  /\ LET after ==
           OnError([speech EXCEPT !.synthQueue = Tail(@)])
     IN  /\ Hands(after)
         /\ speech' = after
  /\ UNCHANGED <<tokenBudget, components, templateVariables, ret, call,
                 storyVars, imageVars>>

\* the error event of a cancelled utterance is handled
utteranceCancelled ==
  /\ speech.synthCancelled > 0
  /\ LET after ==
           OnError([speech EXCEPT !.synthCancelled = @ - 1])
     IN  /\ Hands(after)
         /\ speech' = after
  /\ UNCHANGED <<tokenBudget, components, templateVariables, ret, call,
                 storyVars, imageVars>>

\* ------------------------------------------------------------------------
\* Narration of up to MaxTexts texts (specification SpecSpeech)
\* ------------------------------------------------------------------------
NarratedTexts == <<"Once there was a fox.", "The fox found a key.", "The end.">>

InitSpeech ==
  /\ Constructor("gpt-4o", <<>>)
  /\ NoStoryYet
  /\ NoImagesYet
  /\ speech = NewSpeechService

NextSpeech ==
  \/ \E n \in 0..MaxTexts :
       speak([k \in 1..n |-> NarratedTexts[((k - 1) % Len(NarratedTexts)) + 1]])
  \/ pause
  \/ resume
  \/ stop
  \/ \E index \in -1..MaxTexts : jumpTo(index)
  \/ togglePlayPause
  \/ utteranceEnds
  \/ utteranceFails
  \/ utteranceCancelled

SpecSpeech == InitSpeech /\ [][NextSpeech]_vars

\* C30: isPlaying implies that an utterance was handed to the synthesizer
\* and has not since been cancelled, ended or paused: the synthesizer
\* holds an utterance and is not paused.
C30_PlayingMeansSpeaking ==
  speech.isPlaying =>
    /\ speech.utterance # <<>>
    /\ speech.synthQueue # <<>>
    /\ ~speech.synthPaused

====
